---------------------------- MODULE Spec2Model ----------------------------
(***************************************************************************)
(* A model of the hierarchical administrative-boundary import of           *)
(* geocode-commons-categories.                                             *)
(*                                                                         *)
(*   SpecUpsert : the table admin_boundaries over successive runs of the   *)
(*               pipeline (insertQuery, deduplicateBoundaries).            *)
(*   SpecCli    : the command line entry, main and runImport               *)
(*               (src/import/index.ts).                                    *)
(*   SpecGeometry : the geometry of a relation, from its member ways to    *)
(*               the EWKT text: mergeWaysIntoRings, parseRelationGeometry  *)
(*               (src/import/fetch/geometry.ts) and geometryToEWKT.        *)
(*   SpecRaw    : the relations of one geometry batch, from the answer of  *)
(*               Overpass to osm_relations and to the transform:           *)
(*               fetchGeometryBatch, batchInsertRelations,                 *)
(*               validateGeometries.                                       *)
(*   SpecImport : the pipeline of runImport with the country run as its    *)
(*               step 1 (src/import/index.ts, hierarchical/index.ts).      *)
(*   SpecInterrupt : a run that is interrupted by a signal, between the    *)
(*               attempts of fetchWithRetry or inside the transaction of   *)
(*               processBatch (src/import/database/batch.ts).              *)
(*   SpecRetry : the HTTP retry client, fetchWithRetry                     *)
(*               (src/import/utils/retry.ts).                              *)
(*   SpecPersist : the batch persister, batchInsertBoundaries              *)
(*               (src/import/database/index.ts, batch.ts) and              *)
(*               batchInsertRelations (src/import/database/insert.ts).     *)
(*   SpecIds   : the wikidata id of a relation on its way from the OSM     *)
(*               tag to the Wikidata request and the tables.               *)
(*   SpecWiki  : the Wikidata client, fetchWikimediaCategoriesBatch over   *)
(*               processInBatches (import/utils/wikidata-api, batch).      *)
(*   SpecMulti : the multi-country run, importAllCountries                 *)
(*               (src/scripts/import/hierarchical/index.ts).               *)
(*   Spec      : a country run, importCountry                              *)
(*               (src/scripts/import/hierarchical/index.ts), with the      *)
(*               discovery of fetchAllRelationIds                          *)
(*               (src/import/fetch/relations.ts) and the progress tracker  *)
(*               (src/import/database/queries.ts).                         *)
(***************************************************************************)
EXTENDS Integers, Sequences, FiniteSets, TLC

VARIABLES
    \* ---- fetchWithRetry ----
    rpc,          \* position of the generator: "idle", "loop", "done"
    attempt,      \* the loop counter `attempt` (0-indexed)
    baseDelayMs,  \* options.baseDelayMs, defaulting to RETRY_CONFIG.BASE_DELAY_MS
    log,          \* what the client did, in order: fetch() calls and sleeps
    outcomes,     \* what the endpoint answered to each call, in order
    result,       \* the value or the error the Effect ends with
    \* ---- importCountry, fetchAllRelationIds, import_progress ----
    adminLevelRange,  \* the configured range {min, max} of admin levels
    progress,         \* the country's import_progress row, or NoRow
    cpc,              \* position of importCountry
    level,            \* the loop variable `level` of the running loop
    parentRelations,  \* fetchAllRelationIds: the search areas of the next level
    relationMap,      \* admin level -> relation ids (empty: no entry)
    queries,          \* the Overpass discovery queries issued, in order
    totalRelationsInserted,
    events,           \* what the run did per level, in order
    runError,         \* the error the run's Effect failed with, or NoError
    \* ---- importAllCountries, importCountriesBatch ----
    tracker,      \* import_progress: country code -> row, or NoRow
    mpc,          \* position of importAllCountries
    batchIdx,     \* the loop variable `i` (1-indexed here)
    pipeline,     \* country code -> where its importCountry is in this process
    mlog,         \* the pipelines started and the sleeps slept, in order
    \* ---- fetchWikimediaCategoriesBatch, processInBatches ----
    wpc,          \* position of fetchWikimediaCategoriesBatch
    uniqueIds,    \* the ids asked for, deduplicated, in order
    wBatchSize,   \* the parameter batchSize
    wi,           \* processInBatches: the loop variable `i`
    batchResults, \* processInBatches: `results`, a categoryMap per batch
    wlog,         \* the HTTP calls made and the sleeps slept, in order
    wresult,      \* what the Effect ends with: finalMap, or a failure
    \* ---- the wikidata id of a relation, from the OSM tag to its uses ----
    osmTag,       \* el.tags['wikidata'], or NoTag
    idStage,      \* "tag", "extracted", "dropped", "sent", "stored"
    idPath,       \* the code the id went through
    idValue,      \* the id as it is at that stage
    \* ---- batchInsertBoundaries, processBatch, batchInsertRelations ----
    ppc,              \* position of batchInsertBoundaries
    boundaries,       \* the rows to insert (their names), in order
    pBatchSize,       \* the parameter batchSize
    pidx,             \* processInBatches: the loop variable `i`
    persistLog,       \* what each batch did, in order
    admin_boundaries, \* the rows of the table admin_boundaries
    osm_relations,    \* the rows of the table osm_relations
    stats,            \* ImportStats: insertedRecords and errors
    acquired,         \* connections taken from the pool so far, per table written
    released,         \* connections given back to the pool so far, per table written
    \* ---- admin_boundaries over successive runs of the pipeline ----
    enriched,     \* the rows of admin_boundaries: id, wikidata_id, value
    upstream,     \* the enriched boundaries of the country, before deduplication
    dbOutcome,    \* what the database answers to each INSERT of a run
    runs,         \* the runs of the pipeline that have ended
    snapshots,     \* the table as it was at the end of each run
    \* ---- main, runImportWithCleanup, runImport ----
    env,          \* Bun.env: COUNTRY_CODE, ADMIN_LEVELS, SKIP_WIKIDATA
    mainPc,       \* position of main and of the effect it runs
    osmCount,     \* osmRelations.length
    matched,      \* transformedBoundaries.length
    importErrors, \* stats.errors.length
    console,      \* what console.error and console.log received, of interest
    effectExit,   \* how the effect of runImport ended
    poolClosed,   \* closePool has run
    exitStatus,    \* the exit status of the process, once it has ended
    \* ---- parseRelationGeometry, convertToOSMRelation ----
    members,      \* the member ways of the relation, with their roles
    gpc,          \* "input", "merged", "parsed", "skipped", "converted"
    outerRings,   \* mergeWaysIntoRings(outerWays)
    innerRings,   \* mergeWaysIntoRings(innerWays)
    geojson,      \* the GeoJSON geometry parseRelationGeometry returns
    ewkt,          \* the text geometryToEWKT returns: its kind and its rings
    \* ---- fetchGeometryBatch, batchInsertRelations, validateGeometries ----
    elements,     \* the relations Overpass returned: their tags and member ways
    rawPc,        \* "fetch", "store", "transform", "insert", "done", "skipped", "failed"
    results,      \* what fetchGeometryBatch returns: the ParsedGeometry list
    rawTxn,       \* the transaction of batchInsertRelations: its state and rows
    rawTable,     \* the committed rows of osm_relations: relation and geometry
    transformed,  \* the boundaries the transform lets through
    enrichedTable, \* the rows of admin_boundaries: relation and geom
    \* ---- the interrupted run ----
    alive,        \* TRUE while the process of the import runs
    ipc,          \* "fetch", "store", "ended": what the run is doing
    cursor,       \* the batch the run is at, and the next row of it
    session,      \* the database session of the batch: its transaction
    tableRows     \* the rows of the table that other sessions see

retryVars == <<rpc, attempt, baseDelayMs, log, outcomes, result>>

countryVars == <<adminLevelRange, progress, cpc, level, parentRelations,
                 relationMap, queries, totalRelationsInserted, events, runError>>

multiVars == <<tracker, mpc, batchIdx, pipeline, mlog>>

wikiVars == <<wpc, uniqueIds, wBatchSize, wi, batchResults, wlog, wresult>>

idVars == <<osmTag, idStage, idPath, idValue>>

persistVars == <<ppc, boundaries, pBatchSize, pidx, persistLog, admin_boundaries,
                 osm_relations, stats, acquired, released>>

upsertVars == <<enriched, upstream, dbOutcome, runs, snapshots>>

cliVars == <<env, mainPc, osmCount, matched, importErrors, console, effectExit, poolClosed, exitStatus>>

geometryVars == <<members, gpc, outerRings, innerRings, geojson, ewkt>>

rawVars == <<elements, rawPc, results, rawTxn, rawTable, transformed, enrichedTable>>

interruptVars == <<alive, ipc, cursor, session, tableRows>>

vars == <<retryVars, countryVars, multiVars, wikiVars, idVars, persistVars, upsertVars, cliVars, geometryVars, rawVars, interruptVars>>

-----------------------------------------------------------------------------
(* Helpers *)

RECURSIVE Pow2(_)
Pow2(n) == IF n <= 0 THEN 1 ELSE 2 * Pow2(n - 1)

Min(a, b) == IF a <= b THEN a ELSE b

Last(s) == s[Len(s)]

-----------------------------------------------------------------------------
(* The HTTP retry client: fetchWithRetry *)

\* RETRY_CONFIG
MAX_ATTEMPTS == 3
BASE_DELAY_MS == 1000

\* The delay the tests pass as baseDelayMs.
TEST_DELAY_MS == 1

RETRYABLE_SERVER_ERRORS == {500, 502, 503, 504}

\* The statuses the endpoint answers with in this model: two 2xx, two
\* terminal 4xx, the rate limit, the four retryable 5xx and a 5xx that is
\* not in RETRYABLE_SERVER_ERRORS.
Statuses == {200, 204, 400, 404, 429, 500, 501, 502, 503, 504}

\* Response.statusText, as the server sends it with the status.
StatusText(status) ==
    CASE status = 200 -> "OK"
      [] status = 204 -> "No Content"
      [] status = 400 -> "Bad Request"
      [] status = 404 -> "Not Found"
      [] status = 429 -> "Too Many Requests"
      [] status = 500 -> "Internal Server Error"
      [] status = 501 -> "Not Implemented"
      [] status = 502 -> "Bad Gateway"
      [] status = 503 -> "Service Unavailable"
      [] status = 504 -> "Gateway Timeout"
      [] OTHER -> ""

\* What one fetch() can end in: a rejected promise (transport error), or a
\* Response; the body of a 2xx Response decodes as JSON or does not.
NetError == [kind |-> "neterr", status |-> 0, statusText |-> "", json |-> FALSE]

Response(status, json) ==
    [kind |-> "resp", status |-> status, statusText |-> StatusText(status),
     json |-> json]

Outcomes ==
    {NetError}
    \cup {Response(s, FALSE) : s \in Statuses}
    \cup {Response(s, TRUE) : s \in {200, 204}}

\* Response.ok
ResOk(res) == res.status >= 200 /\ res.status <= 299

\* A mutant of isRetryableStatus that forgets 503.
isRetryableStatusNo503(status) ==
    status = 429 \/ status \in (RETRYABLE_SERVER_ERRORS \ {503})

\* A mutant of isRetryableStatus that retries every 4xx.
isRetryableStatusAll4xx(status) ==
    (status >= 400 /\ status <= 499) \/ status \in RETRYABLE_SERVER_ERRORS

isRetryableStatus(status) ==
    status = 429 \/ status \in RETRYABLE_SERVER_ERRORS

\* A mutant of RetryDelay that doubles once too often.
RetryDelayOffByOne(base, att) == base * Pow2(att + 1)

\* baseDelayMs * 2 ** attempt
RetryDelay(base, att) == base * Pow2(att)

NoResult == [tag |-> "none"]
Success == [tag |-> "ok"]
Failure(kind, status, statusText) ==
    [tag |-> "fail", kind |-> kind, status |-> status, statusText |-> statusText]

CallEvent(n) == [ev |-> "call", n |-> n, ms |-> 0]
SleepEvent(ms) == [ev |-> "sleep", n |-> 0, ms |-> ms]

RetryInit ==
    /\ rpc = "idle"
    /\ attempt = 0
    /\ baseDelayMs = BASE_DELAY_MS
    /\ log = <<>>
    /\ outcomes = <<>>
    /\ result = NoResult

\* fetchWithRetry(options): a logical request starts.
StartRequest ==
    /\ rpc \in {"idle", "done"}
    /\ \E base \in {BASE_DELAY_MS, TEST_DELAY_MS} : baseDelayMs' = base
    /\ rpc' = "loop"
    /\ attempt' = 0
    /\ log' = <<>>
    /\ outcomes' = <<>>
    /\ result' = NoResult

\* Sleep and go round the loop again.
SleepAndContinue(called) ==
    /\ log' = Append(called, SleepEvent(RetryDelay(baseDelayMs, attempt)))
    /\ attempt' = attempt + 1
    /\ rpc' = "loop"
    /\ result' = result

\* The generator ends with `res`.
EndWith(called, res) ==
    /\ log' = called
    /\ attempt' = attempt
    /\ rpc' = "done"
    /\ result' = res

\* One turn of the for loop: the fetch() call, and what the code does with
\* its outcome.
FetchAttempt ==
    /\ rpc = "loop"
    /\ IF attempt < MAX_ATTEMPTS
       THEN \E o \in Outcomes :
              LET called == Append(log, CallEvent(attempt + 1)) IN
              /\ outcomes' = Append(outcomes, o)
              /\ IF o.kind = "neterr"
                 THEN IF attempt < MAX_ATTEMPTS - 1
                      THEN SleepAndContinue(called)
                      ELSE EndWith(called, Failure("transport", 0, ""))
                 ELSE IF ~ResOk(o)
                      THEN IF isRetryableStatus(o.status) /\ attempt < MAX_ATTEMPTS - 1
                           THEN SleepAndContinue(called)
                           ELSE EndWith(called, Failure("http", o.status, o.statusText))
                      ELSE IF o.json
                           THEN EndWith(called, Success)
                           ELSE EndWith(called, Failure("json", 0, ""))
       ELSE \* the loop ran out: 'Max retries exceeded'
            /\ outcomes' = outcomes
            /\ EndWith(log, Failure("max-retries", 0, ""))
    /\ UNCHANGED baseDelayMs

-----------------------------------------------------------------------------
(* The progress tracker: the import_progress row of one country *)

\* How far the model goes: admin levels 2..MaxLevel (MaxLevel is the
\* configured end of the range, any level of it the configured start).
MaxLevel == 4

Levels == 2..MaxLevel

\* The relation ids Overpass answers with.
Ids == {1, 2}

NULL == "NULL"
NoRow == [status |-> "absent"]
NoError == [tag |-> "none"]

\* Timestamps are kept relative to the run: NULL, "old" (set by an earlier
\* run) or "now" (set by NOW() in the current run).
Aged(row) ==
    IF row = NoRow THEN row
    ELSE [row EXCEPT !.started_at = IF @ = NULL THEN NULL ELSE "old",
                     !.completed_at = IF @ = NULL THEN NULL ELSE "old"]

\* INSERT ... VALUES ($1, 2, 'in_progress', 0, 0, NOW())
\* ON CONFLICT (country_code) DO UPDATE SET status, current_admin_level,
\* started_at, completed_at
initializeProgress(row) ==
    IF row = NoRow
    THEN [status |-> "in_progress", current_admin_level |-> 2,
          relations_fetched |-> 0, errors |-> 0, started_at |-> "now",
          completed_at |-> NULL, last_error |-> NULL]
    ELSE [row EXCEPT !.status = "in_progress",
                     !.current_admin_level = 2,
                     !.started_at = "now",
                     !.completed_at = NULL]

\* A mutant of updateProgress that binds the two numeric fields to each
\* other's placeholder.
updateProgressSwapped(row, updates) ==
    IF row = NoRow THEN row
    ELSE LET has(f) == f \in DOMAIN updates IN
         [row EXCEPT
            !.current_admin_level = IF has("relationsFetched") THEN updates.relationsFetched ELSE @,
            !.relations_fetched = IF has("currentAdminLevel") THEN updates.currentAdminLevel ELSE @,
            !.errors = IF has("errors") THEN updates.errors ELSE @,
            !.status = IF has("status") THEN updates.status ELSE @,
            !.last_error = IF has("lastError") THEN updates.lastError ELSE @,
            !.completed_at = IF has("status") /\ updates.status = "completed" THEN "now" ELSE @]

\* UPDATE import_progress SET <the fields given> WHERE country_code = $n;
\* `updates` is a record holding the fields that are not undefined.
updateProgress(row, updates) ==
    IF row = NoRow THEN row
    ELSE LET has(f) == f \in DOMAIN updates IN
         [row EXCEPT
            !.current_admin_level = IF has("currentAdminLevel") THEN updates.currentAdminLevel ELSE @,
            !.relations_fetched = IF has("relationsFetched") THEN updates.relationsFetched ELSE @,
            !.errors = IF has("errors") THEN updates.errors ELSE @,
            !.status = IF has("status") THEN updates.status ELSE @,
            !.last_error = IF has("lastError") THEN updates.lastError ELSE @,
            !.completed_at = IF has("status") /\ updates.status = "completed" THEN "now" ELSE @]

markCompleted(row) == updateProgress(row, [status |-> "completed"])

markFailed(row, error) == updateProgress(row, [status |-> "failed", lastError |-> error])

-----------------------------------------------------------------------------
(* Discovery: fetchAllRelationIds *)

\* What a failed fetchOverpass surfaces after its retries: a persistent 429,
\* or a transport error.
FetchErrors ==
    {Failure("http", 429, "Too Many Requests"), Failure("transport", 0, "")}

\* The message of an Error, as markFailed would store it.
ErrorMessage(err) ==
    IF err.kind = "http" THEN "Overpass API error: 429 Too Many Requests"
    ELSE "fetch failed"

EmptyMap == [l \in Levels |-> {}]

\* relationMap.size
MapSize(map) == Cardinality({l \in Levels : map[l] # {}})

\* A probe of a level, as logged: the country-root query, or the child
\* queries of a level (one per parent relation), with the ids found and
\* whether a query of it failed.
RootQuery(lvl, found, failed) ==
    [kind |-> "root", level |-> lvl, parents |-> {}, found |-> found, failed |-> failed]
ChildQuery(lvl, parents, found, failed) ==
    [kind |-> "child", level |-> lvl, parents |-> parents, found |-> found,
     failed |-> failed]

\* A mutant of NextParents that takes the level's result even when empty.
NextParentsAlways(parents, uniqueChildIds) == uniqueChildIds

\* if (uniqueChildIds.length === 0) continue; parentRelations = uniqueChildIds
NextParents(parents, uniqueChildIds) ==
    IF uniqueChildIds = {} THEN parents ELSE uniqueChildIds

\* relationMap.set(level, ids) only for a non-empty level
SetLevel(map, lvl, ids) ==
    IF ids = {} THEN map ELSE [map EXCEPT ![lvl] = ids]

\* The level of the country-root query.
RootLevel == 2

\* The Effect of the run fails with `err`: nothing in importCountry catches
\* it, so the generator ends there and its locals are gone.
RunFails(err) ==
    /\ cpc' = "error"
    /\ runError' = err
    /\ level' = 0
    /\ parentRelations' = {}
    /\ relationMap' = EmptyMap
    /\ totalRelationsInserted' = 0

\* No country run: the state of the country part while only the retry client
\* is exercised.
CountryIdle ==
    /\ adminLevelRange = [min |-> 2, max |-> MaxLevel]
    /\ progress = NoRow
    /\ cpc = "idle"
    /\ level = 0
    /\ parentRelations = {}
    /\ relationMap = EmptyMap
    /\ queries = <<>>
    /\ totalRelationsInserted = 0
    /\ events = <<>>
    /\ runError = NoError

CountryInit ==
    /\ adminLevelRange \in {[min |-> a, max |-> MaxLevel] : a \in Levels}
    /\ progress = NoRow
    /\ cpc = "idle"
    /\ level = 0
    /\ parentRelations = {}
    /\ relationMap = EmptyMap
    /\ queries = <<>>
    /\ totalRelationsInserted = 0
    /\ events = <<>>
    /\ runError = NoError

\* importCountry(iso3Code) starts: initializeProgress.  Time has passed
\* since any earlier run.
StartRun ==
    /\ cpc \in {"idle", "done", "error", "interrupted"}
    /\ progress' = initializeProgress(Aged(progress))
    /\ cpc' = "root"
    /\ level' = 0
    /\ parentRelations' = {}
    /\ relationMap' = EmptyMap
    /\ queries' = <<>>
    /\ totalRelationsInserted' = 0
    /\ events' = <<>>
    /\ runError' = NoError
    /\ UNCHANGED adminLevelRange

\* fetchAllRelationIds, the country-root query: fetchCountryLevelRelations.
FetchRoot ==
    /\ cpc = "root"
    /\ \/ /\ \E err \in FetchErrors : RunFails(err)
          /\ queries' = Append(queries, RootQuery(RootLevel, {}, TRUE))
       \/ \E level2Ids \in SUBSET Ids :
            /\ queries' = Append(queries, RootQuery(RootLevel, level2Ids, FALSE))
            /\ relationMap' = SetLevel(relationMap, RootLevel, level2Ids)
            /\ parentRelations' = level2Ids
            /\ level' = RootLevel + 1
            /\ cpc' = "children"
            /\ UNCHANGED <<runError, totalRelationsInserted>>
    /\ UNCHANGED <<adminLevelRange, progress, events>>

\* fetchAllRelationIds, one turn of the loop over levels: a child query per
\* parent relation, the union of the answers, and the skip of an empty level.
\* The loop ends when level > maxLevel and the map is returned.
FetchChildren ==
    /\ cpc = "children"
    /\ IF level <= adminLevelRange.max
       THEN \/ /\ parentRelations # {}
               /\ \E err \in FetchErrors : RunFails(err)
               /\ queries' = Append(queries, ChildQuery(level, parentRelations, {}, TRUE))
            \/ \E children \in [parentRelations -> SUBSET Ids] :
                    LET uniqueChildIds == UNION {children[p] : p \in parentRelations} IN
                    /\ queries' = Append(queries,
                            ChildQuery(level, parentRelations, uniqueChildIds, FALSE))
                    /\ relationMap' = SetLevel(relationMap, level, uniqueChildIds)
                    /\ parentRelations' = NextParents(parentRelations, uniqueChildIds)
                    /\ level' = level + 1
                    /\ UNCHANGED <<cpc, runError, totalRelationsInserted>>
       ELSE /\ cpc' = "discovered"
            /\ UNCHANGED <<queries, relationMap, parentRelations, level, runError,
                           totalRelationsInserted>>
    /\ UNCHANGED <<adminLevelRange, progress, events>>

-----------------------------------------------------------------------------
(* The country run: importCountry *)

\* The steps of a level, as the run takes them: the geometry fetch, the
\* insert into osm_relations, the tracker update.
GeometryEvent(lvl, failed) == [ev |-> "geometry", level |-> lvl, failed |-> failed]
PersistEvent(lvl) == [ev |-> "persist", level |-> lvl]
ProgressEvent(lvl) == [ev |-> "progress", level |-> lvl]

\* if (relationMap.size === 0) { markFailed(iso3Code, 'No relations found'); return }
CheckRelations ==
    /\ cpc = "discovered"
    /\ IF MapSize(relationMap) = 0
       THEN /\ progress' = markFailed(progress, "No relations found")
            /\ cpc' = "done"
            /\ UNCHANGED level
       ELSE /\ level' = adminLevelRange.min
            /\ cpc' = "levels"
            /\ UNCHANGED progress
    /\ UNCHANGED <<adminLevelRange, parentRelations, relationMap, queries,
                   totalRelationsInserted, events, runError>>

\* A mutant of NextLevel: the loop takes the same level again.
NextLevelStays(lvl) ==
    /\ level' = lvl
    /\ cpc' = "levels"

\* The for loop moves on to the next level, or is over.
NextLevel(lvl) ==
    /\ level' = lvl + 1
    /\ cpc' = IF lvl + 1 <= adminLevelRange.max THEN "levels" ELSE "complete"

\* BATCH_SIZES.OVERPASS_GEOMETRY: the relations of one geometry query.
GeometryBatchSize == 1

\* relationIds.slice(i, i + BATCH_SIZES.OVERPASS_GEOMETRY), for the k-th turn
\* of the loop: the ids are in ascending order.
GeometryBatch(relationIds, k) ==
    {id \in relationIds :
        Cardinality({j \in relationIds : j <= id}) \in
            ((k - 1) * GeometryBatchSize + 1)..(k * GeometryBatchSize)}
GeometryBatches(relationIds) ==
    (Cardinality(relationIds) + GeometryBatchSize - 1) \div GeometryBatchSize

\* What fetchGeometryBatch ends with: the relations it parsed, or the failure
\* of fetchOverpass once its retries are exhausted.
Parsed(relations) == [tag |-> "ok", parsed |-> relations]
GeometryOutcomes(relationIds) ==
    {f \in [1..GeometryBatches(relationIds) ->
                FetchErrors \cup {Parsed(r) : r \in SUBSET relationIds}] :
        \A k \in DOMAIN f :
            f[k].tag = "ok" => f[k].parsed \subseteq GeometryBatch(relationIds, k)}

\* A mutant of fetchAllGeometry that goes on after a failed batch and returns
\* what the other batches parsed.
RECURSIVE fetchAllGeometryKeepsPartial(_, _)
fetchAllGeometryKeepsPartial(geometryResults, n) ==
    IF n = 0 THEN Parsed({})
    ELSE LET allResults == fetchAllGeometryKeepsPartial(geometryResults, n - 1) IN
         IF geometryResults[n].tag = "fail" THEN allResults
         ELSE Parsed(allResults.parsed \cup geometryResults[n].parsed)

\* fetchAllGeometry over the first n batches: the failure of a batch is the
\* failure of the whole, and allResults is lost with it.
RECURSIVE fetchAllGeometry(_, _)
fetchAllGeometry(geometryResults, n) ==
    IF n = 0 THEN Parsed({})
    ELSE LET allResults == fetchAllGeometry(geometryResults, n - 1) IN
         IF allResults.tag = "fail" THEN allResults
         ELSE IF geometryResults[n].tag = "fail" THEN geometryResults[n]
         ELSE Parsed(allResults.parsed \cup geometryResults[n].parsed)

\* One turn of the loop over the admin levels: fetchAllGeometry,
\* batchInsertRelations, updateProgress.
ProcessLevel ==
    /\ cpc = "levels"
    /\ LET relationIds == relationMap[level] IN
       IF relationIds = {}
       THEN \* "No relations at level ..., stopping": break
            /\ cpc' = "complete"
            /\ UNCHANGED <<level, progress, totalRelationsInserted, events, runError,
                           relationMap, parentRelations>>
       ELSE \E geometryResults \in GeometryOutcomes(relationIds) :
            LET geometry == fetchAllGeometry(geometryResults, Len(geometryResults))
                batchFailed == \E k \in DOMAIN geometryResults : geometryResults[k].tag = "fail"
                fetched == Append(events, GeometryEvent(level, batchFailed))
            IN
            IF geometry.tag = "fail"
            THEN \* fetchAllGeometry fails
                 /\ events' = fetched
                 /\ RunFails(geometry)
                 /\ UNCHANGED progress
            ELSE LET parsedGeometries == geometry.parsed IN
                 IF parsedGeometries = {}
                 THEN \* "No geometries parsed": continue
                      /\ events' = fetched
                      /\ NextLevel(level)
                      /\ UNCHANGED <<progress, totalRelationsInserted, runError,
                                     relationMap, parentRelations>>
                 ELSE \/ \* batchInsertRelations fails: nothing of the level is committed
                         /\ events' = fetched
                         /\ RunFails(Failure("database", 0, ""))
                         /\ UNCHANGED progress
                      \/ \* inserted + updated = relations.length
                         LET total == totalRelationsInserted + Cardinality(parsedGeometries) IN
                         /\ totalRelationsInserted' = total
                         /\ progress' = updateProgress(progress,
                                [currentAdminLevel |-> level, relationsFetched |-> total])
                         /\ events' = fetched \o <<PersistEvent(level), ProgressEvent(level)>>
                         /\ NextLevel(level)
                         /\ UNCHANGED <<runError, relationMap, parentRelations>>
    /\ UNCHANGED <<adminLevelRange, queries>>

\* After the loop: markCompleted(iso3Code).
MarkCompleted ==
    /\ cpc = "complete"
    /\ progress' = markCompleted(progress)
    /\ cpc' = "done"
    /\ UNCHANGED <<adminLevelRange, level, parentRelations, relationMap, queries,
                   totalRelationsInserted, events, runError>>

\* The process is interrupted (a signal) while the run is under way: what the
\* run held in memory is gone, the import_progress row stays as it is.
Interrupt ==
    /\ cpc \in {"root", "children", "discovered", "levels", "complete"}
    /\ cpc' = "interrupted"
    /\ level' = 0
    /\ parentRelations' = {}
    /\ relationMap' = EmptyMap
    /\ queries' = <<>>
    /\ totalRelationsInserted' = 0
    /\ events' = <<>>
    /\ UNCHANGED <<adminLevelRange, progress, runError>>

-----------------------------------------------------------------------------
(* The multi-country run: importAllCountries, importCountriesBatch *)

\* IMPORT.COUNTRY_BATCH_SIZE, DELAYS.COUNTRY_BATCH_MS
COUNTRY_BATCH_SIZE == 5
COUNTRY_BATCH_MS == 5000

\* The size of the catalogue of country codes.
NumCountries == 6

\* The catalogue, in its order; a code is its rank.
getSortedCountryCodes == [i \in 1..NumCountries |-> i]

Countries == {getSortedCountryCodes[i] : i \in 1..NumCountries}

\* The catalogue cut into consecutive slices of `size` codes.
batchCountryCodes(size) ==
    LET codes == getSortedCountryCodes
        n == (Len(codes) + size - 1) \div size
    IN [k \in 1..n |-> SubSeq(codes, (k - 1) * size + 1, Min(k * size, Len(codes)))]

Batches == batchCountryCodes(COUNTRY_BATCH_SIZE)

\* SELECT code FROM unnest($1) LEFT JOIN import_progress p ...
\* WHERE p.status IS NULL OR p.status != 'completed'
getPendingCountries(allCountryCodes, rows) ==
    {c \in allCountryCodes : rows[c] = NoRow \/ rows[c].status # "completed"}

StartedEvent(c) == [ev |-> "start", country |-> c, batch |-> 0, ms |-> 0]
BatchEvent(k) == [ev |-> "batch", country |-> 0, batch |-> k, ms |-> 0]
WaitEvent(ms) == [ev |-> "sleep", country |-> 0, batch |-> 0, ms |-> ms]

InBatch(c, k) == \E j \in 1..Len(Batches[k]) : Batches[k][j] = c

\* The place of a code in its batch.
PlaceOf(c, k) == CHOOSE j \in 1..Len(Batches[k]) : Batches[k][j] = c

PipelineEnded(c) == pipeline[c] \in {"completed", "failed", "error"}

MultiIdle ==
    /\ tracker = [c \in Countries |-> NoRow]
    /\ mpc = "idle"
    /\ batchIdx = 0
    /\ pipeline = [c \in Countries |-> "pending"]
    /\ mlog = <<>>

\* importAllCountries() starts (a new process: time has passed since any
\* earlier one) and enters its first batch.
StartAll ==
    /\ mpc \in {"idle", "done", "failed"}
    /\ tracker' = [c \in Countries |-> Aged(tracker[c])]
    /\ pipeline' = [c \in Countries |-> "pending"]
    /\ IF Len(Batches) >= 1
       THEN /\ mpc' = "batch"
            /\ batchIdx' = 1
            /\ mlog' = <<BatchEvent(1)>>
       ELSE /\ mpc' = "done"
            /\ batchIdx' = 0
            /\ mlog' = <<>>

\* Effect.all(countryCodes.map((code) => importCountry(code))), no
\* concurrency option: the effects run one after another, in the order of
\* the array.  importCountry(c) starts with initializeProgress.
StartCountry(c) ==
    /\ mpc = "batch"
    /\ InBatch(c, batchIdx)
    /\ pipeline[c] = "pending"
    /\ \A j \in 1..(PlaceOf(c, batchIdx) - 1) :
            pipeline[Batches[batchIdx][j]] \in {"completed", "failed"}
    /\ pipeline' = [pipeline EXCEPT ![c] = "running"]
    /\ tracker' = [tracker EXCEPT ![c] = initializeProgress(@)]
    /\ mlog' = Append(mlog, StartedEvent(c))
    /\ UNCHANGED <<mpc, batchIdx>>

\* importCountry(c) ends: it returns after markCompleted, it returns after
\* markFailed('No relations found'), or its Effect fails (a fetch or an
\* insert failed).  A failed Effect ends Effect.all, importCountriesBatch
\* and importAllCountries with it.
FinishCountry(c) ==
    /\ mpc = "batch"
    /\ pipeline[c] = "running"
    /\ \/ /\ pipeline' = [pipeline EXCEPT ![c] = "completed"]
          /\ tracker' = [tracker EXCEPT ![c] = markCompleted(@)]
          /\ UNCHANGED mpc
       \/ /\ pipeline' = [pipeline EXCEPT ![c] = "failed"]
          /\ tracker' = [tracker EXCEPT ![c] = markFailed(@, "No relations found")]
          /\ UNCHANGED mpc
       \/ /\ pipeline' = [pipeline EXCEPT ![c] = "error"]
          /\ mpc' = "failed"
          /\ UNCHANGED tracker
    /\ UNCHANGED <<batchIdx, mlog>>

\* importCountriesBatch returned: sleep COUNTRY_BATCH_MS and go on with the
\* next batch, or, after the last batch, end.
EndBatch ==
    /\ mpc = "batch"
    /\ \A j \in 1..Len(Batches[batchIdx]) :
            pipeline[Batches[batchIdx][j]] \in {"completed", "failed"}
    /\ IF batchIdx < Len(Batches)
       THEN /\ mlog' = mlog \o <<WaitEvent(COUNTRY_BATCH_MS), BatchEvent(batchIdx + 1)>>
            /\ batchIdx' = batchIdx + 1
            /\ UNCHANGED mpc
       ELSE /\ mpc' = "done"
            /\ UNCHANGED <<batchIdx, mlog>>
    /\ UNCHANGED <<tracker, pipeline>>

-----------------------------------------------------------------------------
(* The Wikidata client: fetchWikimediaCategoriesBatch, processInBatches *)

\* DELAYS.RATE_LIMIT_MS
RATE_LIMIT_MS == 100

\* The ids of a request are drawn from 0..MaxWikiId, 0 standing for the empty
\* string; a request holds at most MaxWikiLen of them and is cut in batches
\* of at most MaxBatchSize.
MaxWikiId == 3
MaxWikiLen == 3
MaxBatchSize == 2

RECURSIVE SeqsUpTo(_, _)
SeqsUpTo(S, n) ==
    IF n = 0 THEN {<<>>}
    ELSE LET shorter == SeqsUpTo(S, n - 1) IN
         shorter \cup {Append(q, x) : q \in shorter, x \in S}

\* [...new Set(wikidataIds)].filter((id) => id && id.length > 0)
RECURSIVE UniqueNonEmpty(_)
UniqueNonEmpty(ids) ==
    IF ids = <<>> THEN <<>>
    ELSE LET front == UniqueNonEmpty(SubSeq(ids, 1, Len(ids) - 1))
             x == ids[Len(ids)]
         IN IF x = 0 \/ \E k \in 1..Len(front) : front[k] = x
            THEN front ELSE Append(front, x)

SeqToSet(q) == {q[k] : k \in 1..Len(q)}

\* What the endpoint does with one request for `batch`: the fetch throws, the
\* status is not 2xx, the body is not JSON, the JSON has no `entities`, or
\* it has one entity per id: with a P373 claim, without one, or missing.
WikiFailures ==
    {[kind |-> "neterr", status |-> 0], [kind |-> "resp", status |-> 429],
     [kind |-> "resp", status |-> 500], [kind |-> "resp", status |-> 404],
     [kind |-> "badjson", status |-> 200]}

WikiAnswers(batch) ==
    {[kind |-> "noentities", status |-> 200]} \cup
    {[kind |-> "json", status |-> 200, entities |-> e] :
        e \in [SeqToSet(batch) -> {"P373", "noclaim", "missing"}]}

WikiOutcomes(batch) == WikiFailures \cup WikiAnswers(batch)

\* A mutant of CatchAll that lets the failure of a batch through.
CatchNothing(outcome) ==
    IF outcome \in WikiFailures THEN [failed |-> TRUE, response |-> outcome]
    ELSE [failed |-> FALSE, response |-> outcome]

\* tryAsync(...).pipe(Effect.catchAll((error) => Effect.succeed({ entities: {} })))
CatchAll(outcome) ==
    IF outcome \in WikiFailures
    THEN [failed |-> FALSE,
          response |-> [kind |-> "json", status |-> 200, entities |-> <<>>]]
    ELSE [failed |-> FALSE, response |-> outcome]

\* The categoryMap of a batch: the ids whose entity holds a P373 value.
CategoryMap(response) ==
    IF response.kind = "noentities" THEN {}
    ELSE {id \in DOMAIN response.entities : response.entities[id] = "P373"}

\* items.slice(i, i + batchSize), Math.floor(i / batchSize) + 1
BatchAt(items, i, size) == SubSeq(items, i + 1, Min(i + size, Len(items)))
BatchNum(i, size) == (i \div size) + 1

WikiCall(batchNum, batch, outcome) ==
    [ev |-> "call", batch |-> batchNum, ids |-> batch, outcome |-> outcome, ms |-> 0]
WikiSleep(ms) ==
    [ev |-> "sleep", batch |-> 0, ids |-> <<>>, outcome |-> [kind |-> "none", status |-> 0],
     ms |-> ms]

NoWikiResult == [tag |-> "none"]
WikiSuccess(finalMap) == [tag |-> "ok", categories |-> finalMap]
WikiFailure(outcome) == [tag |-> "error", cause |-> outcome]

WikiIdle ==
    /\ wpc = "idle"
    /\ uniqueIds = <<>>
    /\ wBatchSize = 1
    /\ wi = 0
    /\ batchResults = <<>>
    /\ wlog = <<>>
    /\ wresult = NoWikiResult

\* The country of the run has been imported (step 1 of runImport) and its
\* import_progress row says completed.
CountryImported ==
    /\ adminLevelRange = [min |-> 2, max |-> MaxLevel]
    /\ progress = markCompleted(initializeProgress(NoRow))
    /\ cpc = "done"
    /\ level = 0
    /\ parentRelations = {}
    /\ relationMap = EmptyMap
    /\ queries = <<>>
    /\ totalRelationsInserted = 0
    /\ events = <<>>
    /\ runError = NoError

\* fetchWikimediaCategoriesBatch(wikidataIds, batchSize) is called.
StartWikidata ==
    /\ wpc = "idle"
    /\ \E wikidataIds \in SeqsUpTo(0..MaxWikiId, MaxWikiLen), size \in 1..MaxBatchSize :
            /\ uniqueIds' = UniqueNonEmpty(wikidataIds)
            /\ wBatchSize' = size
    /\ wpc' = "batches"
    /\ wi' = 0
    /\ batchResults' = <<>>
    /\ wlog' = <<>>
    /\ wresult' = NoWikiResult

\* One turn of the loop of processInBatches: the request of the batch, its
\* categoryMap, the sleep before the next batch; after the last turn, the
\* maps are merged into finalMap.
ProcessBatch ==
    /\ wpc = "batches"
    /\ IF wi < Len(uniqueIds)
       THEN LET batch == BatchAt(uniqueIds, wi, wBatchSize)
                batchNum == BatchNum(wi, wBatchSize)
            IN \E outcome \in WikiOutcomes(batch) :
                 LET batchResult == CatchAll(outcome)
                     called == Append(wlog, WikiCall(batchNum, batch, outcome))
                 IN IF batchResult.failed
                    THEN /\ wlog' = called
                         /\ wresult' = WikiFailure(outcome)
                         /\ wpc' = "done"
                         /\ UNCHANGED <<wi, batchResults>>
                    ELSE /\ batchResults' = Append(batchResults, CategoryMap(batchResult.response))
                         /\ wlog' = IF wi + wBatchSize < Len(uniqueIds)
                                    THEN Append(called, WikiSleep(RATE_LIMIT_MS))
                                    ELSE called
                         /\ wi' = wi + wBatchSize
                         /\ UNCHANGED <<wpc, wresult>>
       ELSE /\ wresult' = WikiSuccess(UNION {batchResults[k] : k \in 1..Len(batchResults)})
            /\ wpc' = "done"
            /\ UNCHANGED <<wi, batchResults, wlog>>
    /\ UNCHANGED <<uniqueIds, wBatchSize>>

-----------------------------------------------------------------------------
(* The wikidata id of a relation *)

\* A string is a sequence of tokens: "Q", a digit, or ENTITY_URL, which stands
\* for the whole of 'http://www.wikidata.org/entity/'.
ENTITY_URL == "http://www.wikidata.org/entity/"

Digits == {"0", "4", "7"}

\* The longest number of a wikidata id.
MaxDigits == 3

\* The values of a wikidata tag: Q and a number, bare or as an entity URL.
QIds == {<<"Q">> \o d : d \in SeqsUpTo(Digits, MaxDigits) \ {<<>>}}
WikidataTags == QIds \cup {<<ENTITY_URL>> \o q : q \in QIds}

\* No tag, or an empty one (el.tags['wikidata'] || null).
NoTag == <<>>

\* ^Q[0-9]+$
IsQid(str) ==
    /\ Len(str) >= 2
    /\ str[1] = "Q"
    /\ \A k \in 2..Len(str) : str[k] \in Digits

\* String.prototype.replace(pattern, '') with a string pattern: the first
\* occurrence of the pattern is removed.
Replace(str, pattern) ==
    IF \E k \in 1..Len(str) : str[k] = pattern
    THEN LET first == CHOOSE k \in 1..Len(str) :
                        /\ str[k] = pattern
                        /\ \A j \in 1..(k - 1) : str[j] # pattern
         IN SubSeq(str, 1, first - 1) \o SubSeq(str, first + 1, Len(str))
    ELSE str

\* const wikidataId = el.tags['wikidata'] || null
ParsedWikidataId(tag) == tag

\* import/index.ts: rows.map((r) => r.wikidata_id).filter(not null)
extractWikidataIds(wikidata_id) == wikidata_id

\* The orchestrator over OSMBoundary[]:
\* id.replace('http://www.wikidata.org/entity/', '').replace('Q', '')
extractWikidataIdsOfBoundaries(tag) == Replace(Replace(tag, ENTITY_URL), "Q")

\* scripts/import/database.ts:
\* wikidataTag.replace('http://www.wikidata.org/entity/', '')
extractWikidataId(wikidataTag) == Replace(wikidataTag, ENTITY_URL)

IdsIdle ==
    /\ osmTag = NoTag
    /\ idStage = "tag"
    /\ idPath = "none"
    /\ idValue = NoTag

\* A relation comes from Overpass with a wikidata tag, or without one.
IdsInit ==
    /\ osmTag \in WikidataTags \cup {NoTag}
    /\ idStage = "tag"
    /\ idPath = "none"
    /\ idValue = NoTag

\* parseGeometryResponse and the insert into osm_relations: the tag goes to
\* the column wikidata_id as it is.
ParseRelation ==
    /\ idStage = "tag"
    /\ idPath' = "rows"
    /\ idValue' = ParsedWikidataId(osmTag)
    /\ idStage' = "stored"
    /\ UNCHANGED osmTag

\* extractWikidataIds over the rows of osm_relations.
ExtractFromRows ==
    /\ idStage = "stored" /\ idPath = "rows"
    /\ IF idValue = NoTag
       THEN idStage' = "dropped" /\ UNCHANGED idValue
       ELSE idStage' = "extracted" /\ idValue' = extractWikidataIds(idValue)
    /\ UNCHANGED <<osmTag, idPath>>

\* extractWikidataIds over the boundaries fetched from Overpass.
ExtractFromBoundaries ==
    /\ idStage = "tag"
    /\ idPath' = "boundaries"
    /\ IF osmTag = NoTag
       THEN idStage' = "dropped" /\ UNCHANGED idValue
       ELSE idStage' = "extracted" /\ idValue' = extractWikidataIdsOfBoundaries(osmTag)
    /\ UNCHANGED osmTag

\* enrichWithWikidataData: the key of the category lookup and the
\* wikidata_id of the admin_boundaries row.
Enrich ==
    /\ idStage = "tag"
    /\ idPath' = "enrich"
    /\ IF osmTag = NoTag
       THEN idStage' = "dropped" /\ UNCHANGED idValue
       ELSE idStage' = "stored" /\ idValue' = extractWikidataId(osmTag)
    /\ UNCHANGED osmTag

\* fetchWikimediaCategoriesBatch: url.searchParams.set('ids', batch.join('|'))
RequestCategories ==
    /\ idStage = "extracted"
    /\ idStage' = "sent"
    /\ UNCHANGED <<osmTag, idPath, idValue>>

-----------------------------------------------------------------------------
(* The batch persister: batchInsertBoundaries, processBatch,               *)
(* batchInsertRelations                                                    *)

\* The most rows of a call of batchInsertBoundaries, and the most calls of
\* batchInsertRelations.
MaxRows == 3
MaxInserts == 2

\* What the database does with one INSERT: it takes the row; the statement
\* fails in the server (a constraint, a geometry that does not parse), which
\* aborts the transaction block; or the query fails in the client, before
\* the server has seen it.
InsertOutcomes == {"ok", "server_error", "client_error"}

\* The state of the transaction after the first k INSERTs of the batch.  In
\* an aborted transaction every statement fails until the block ends.
RECURSIVE InsertRows(_, _, _)
InsertRows(batch, outcome, k) ==
    IF k = 0
    THEN [aborted |-> FALSE, pending |-> {}, insertedRows |-> {}, errors |-> {}]
    ELSE LET before == InsertRows(batch, outcome, k - 1)
             boundary == batch[k]
             insertResult == IF before.aborted THEN "transaction_aborted" ELSE outcome[k]
         IN IF insertResult = "ok"
            THEN [before EXCEPT !.pending = @ \cup {boundary},
                                !.insertedRows = @ \cup {boundary}]
            ELSE [before EXCEPT !.aborted = (@ \/ insertResult = "server_error"),
                                !.errors = @ \cup {[record |-> boundary,
                                                     error |-> insertResult]}]

\* COMMIT: the rows of the block become rows of the table; the COMMIT of an
\* aborted block is a rollback, and no error.
Committed(txn) == IF txn.aborted THEN {} ELSE txn.pending

\* What processBatch ends with.
BatchSucceeded(batchNum, batch, txn) ==
    [batch |-> batchNum, rows |-> batch, success |-> TRUE, cause |-> "none",
     attempted |-> Len(batch), insertedRows |-> txn.insertedRows, errors |-> txn.errors,
     persisted |-> Committed(txn)]
BatchFailed(batchNum, batch, cause) ==
    [batch |-> batchNum, rows |-> batch, success |-> FALSE, cause |-> cause,
     attempted |-> 0, insertedRows |-> {}, errors |-> {}, persisted |-> {}]

\* A mutant of CatchBatchFailure that lets the failure of a batch end
\* processInBatches.
PropagateBatchFailure(batchResult) == batchResult.success

\* processBatch(...).pipe(Effect.map(...), Effect.catchAll((error) =>
\* Effect.succeed({ success: false, error }))): does processInBatches go on?
CatchBatchFailure(batchResult) == TRUE

NoStats == [insertedRecords |-> 0, errors |-> {}]

\* The counts of pool.connect() and client.release(), by caller.
NoConnections == [admin_boundaries |-> 0, osm_relations |-> 0]
CheckedOut(table) == acquired[table] - released[table]

PersistIdle ==
    /\ ppc = "idle"
    /\ boundaries = <<>>
    /\ pBatchSize = 1
    /\ pidx = 0
    /\ persistLog = <<>>
    /\ admin_boundaries = {}
    /\ osm_relations = {}
    /\ stats = NoStats
    /\ acquired = NoConnections
    /\ released = NoConnections

\* batchInsertBoundaries(boundaries, batchSize) is called; the rows are
\* distinct (the transform removes duplicates), named 1..n here.
StartInsertBoundaries ==
    /\ ppc = "idle"
    /\ \E n \in 0..MaxRows, size \in 1..MaxBatchSize :
            /\ boundaries' = [k \in 1..n |-> k]
            /\ pBatchSize' = size
    /\ ppc' = "batches"
    /\ pidx' = 0
    /\ persistLog' = <<>>
    /\ stats' = NoStats
    /\ UNCHANGED <<admin_boundaries, osm_relations, acquired, released>>

\* One turn of the loop of processInBatches over processBatch: connect,
\* BEGIN, an INSERT per row, COMMIT; on an error ROLLBACK; release.  After
\* the last turn the results are summed into stats.
PersistBatch ==
    /\ ppc = "batches"
    /\ IF pidx < Len(boundaries)
       THEN LET batch == BatchAt(boundaries, pidx, pBatchSize)
                batchNum == BatchNum(pidx, pBatchSize)
                Ends(batchResult, took) ==
                    /\ persistLog' = Append(persistLog, batchResult)
                    /\ admin_boundaries' = admin_boundaries \cup batchResult.persisted
                    /\ acquired' = [acquired EXCEPT !.admin_boundaries = @ + took]
                    /\ released' = [released EXCEPT !.admin_boundaries = @ + took]
                    /\ IF CatchBatchFailure(batchResult)
                       THEN pidx' = pidx + pBatchSize /\ UNCHANGED <<ppc, stats>>
                       ELSE ppc' = "failed" /\ UNCHANGED <<pidx, stats>>
            IN \/ \* connectClient fails: there is no client
                  Ends(BatchFailed(batchNum, batch, "connect"), 0)
               \/ \* beginTransaction fails
                  Ends(BatchFailed(batchNum, batch, "begin"), 1)
               \/ \E outcome \in [1..Len(batch) -> InsertOutcomes] :
                    LET txn == InsertRows(batch, outcome, Len(batch)) IN
                    \/ \* commitTransaction fails; the rollback ends the block
                       Ends(BatchFailed(batchNum, batch, "commit"), 1)
                    \/ Ends(BatchSucceeded(batchNum, batch, txn), 1)
       ELSE /\ stats' =
                [insertedRecords |->
                    Cardinality(UNION {persistLog[k].insertedRows : k \in 1..Len(persistLog)}),
                 errors |-> UNION {persistLog[k].errors : k \in 1..Len(persistLog)}]
            /\ ppc' = "done"
            /\ UNCHANGED <<pidx, persistLog, admin_boundaries, acquired, released>>
    /\ UNCHANGED <<boundaries, pBatchSize, osm_relations>>

\* batchInsertRelations(relations): connect, BEGIN, an INSERT per relation,
\* COMMIT, all inside try / catch / finally in the generator.  A yielded
\* Effect that fails ends the generator where it is: Effect.gen does not
\* throw into it, so neither the catch (ROLLBACK) nor the finally
\* (client.release()) runs, and the connection stays checked out.  The
\* function is called at most MaxInserts times with a connection to take,
\* before the rows of admin_boundaries are written (steps 1 and 5 of the run).
InsertRelations ==
    /\ ppc = "idle"
    /\ acquired.osm_relations < MaxInserts
    /\ \E relation \in Ids :
         \/ \* pool.connect() fails
            UNCHANGED <<osm_relations, acquired, released>>
         \/ \* BEGIN, an INSERT or COMMIT fails
            /\ acquired' = [acquired EXCEPT !.osm_relations = @ + 1]
            /\ UNCHANGED <<osm_relations, released>>
         \/ \* COMMIT; return; finally client.release()
            /\ osm_relations' = osm_relations \cup {relation}
            /\ acquired' = [acquired EXCEPT !.osm_relations = @ + 1]
            /\ released' = [released EXCEPT !.osm_relations = @ + 1]
    /\ UNCHANGED <<ppc, boundaries, pBatchSize, pidx, persistLog, admin_boundaries, stats>>

-----------------------------------------------------------------------------
(* The table admin_boundaries: insertQuery, deduplicateBoundaries *)

\* The wikidata ids and the values (commons_category, admin_level, name,
\* geom, taken as a whole) of the rows.
WikidataIds == {"Q1", "Q2"}
RowValues == {"a", "b"}

\* The most boundaries a country brings, and the most runs of the pipeline.
MaxUpstream == 2
MaxRuns == 2

Boundary(w, v) == [wikidata_id |-> w, value |-> v]
Boundaries == {Boundary(w, v) : w \in WikidataIds, v \in RowValues}

\* Remove duplicates by wikidata_id: the first of each id is kept.
RECURSIVE deduplicateBoundaries(_)
deduplicateBoundaries(list) ==
    IF list = <<>> THEN <<>>
    ELSE LET unique == deduplicateBoundaries(SubSeq(list, 1, Len(list) - 1))
             boundary == list[Len(list)]
         IN IF \E k \in 1..Len(unique) : unique[k].wikidata_id = boundary.wikidata_id
            THEN unique ELSE Append(unique, boundary)

\* id SERIAL PRIMARY KEY
NextSerial(table) ==
    IF table = {} THEN 1
    ELSE (CHOOSE r \in table : \A q \in table : q.id <= r.id).id + 1

\* A mutant of Upsert: a plain INSERT, with no ON CONFLICT clause and no
\* unique index behind it.
InsertAlways(table, boundary) ==
    table \cup {[id |-> NextSerial(table), wikidata_id |-> boundary.wikidata_id,
                 value |-> boundary.value]}

\* INSERT INTO admin_boundaries ... ON CONFLICT (wikidata_id) DO UPDATE SET
\* commons_category, admin_level, name, geom = EXCLUDED....
Upsert(table, boundary) ==
    IF \E r \in table : r.wikidata_id = boundary.wikidata_id
    THEN {IF r.wikidata_id = boundary.wikidata_id
          THEN [r EXCEPT !.value = boundary.value] ELSE r : r \in table}
    ELSE table \cup {[id |-> NextSerial(table), wikidata_id |-> boundary.wikidata_id,
                      value |-> boundary.value]}

\* The table after the statements 1..k of a committed transaction.
RECURSIVE UpsertAll(_, _, _, _)
UpsertAll(table, batch, kept, k) ==
    IF k = 0 THEN table
    ELSE LET before == UpsertAll(table, batch, kept, k - 1) IN
         IF batch[k] \in kept THEN Upsert(before, batch[k]) ELSE before

\* The tables a database can hold before the first run: at most one row per
\* wikidata_id (wikidata_id VARCHAR(20) UNIQUE NOT NULL).
InitialTables ==
    {{}} \cup {{[id |-> 1, wikidata_id |-> w, value |-> v]} :
                w \in WikidataIds, v \in RowValues}

UpsertIdle ==
    /\ enriched = {}
    /\ upstream = <<>>
    /\ dbOutcome = <<>>
    /\ runs = 0
    /\ snapshots = <<>>

\* A country whose upstream responses, and the answers of the database to
\* the statements of a run, are the same at every run.
UpsertInit ==
    /\ enriched \in InitialTables
    /\ upstream \in SeqsUpTo(Boundaries, MaxUpstream)
    /\ dbOutcome \in [1..Len(deduplicateBoundaries(upstream)) -> InsertOutcomes]
    /\ runs = 0
    /\ snapshots = <<>>

\* A run of the pipeline up to the insert into admin_boundaries: the
\* boundaries are deduplicated and inserted in one transaction (they fit in
\* one batch), which is committed.
RunPipeline ==
    /\ runs < MaxRuns
    /\ LET batch == deduplicateBoundaries(upstream)
           txn == InsertRows(batch, dbOutcome, Len(batch))
           after == UpsertAll(enriched, batch, Committed(txn), Len(batch))
       IN /\ enriched' = after
          /\ snapshots' = Append(snapshots, after)
    /\ runs' = runs + 1
    /\ UNCHANGED <<upstream, dbOutcome>>

-----------------------------------------------------------------------------
(* The command line entry: main, runImportWithCleanup, runImport *)

\* The most relations a country has in osm_relations.
MaxCliRows == 2

CountryCodes == {NULL, "BEL"}
AdminLevelsStr == {NULL, "2,4"}

\* How an Effect ends: with a value, or with a failure.
Running == "running"
Returned == "returned"
Failed == "failed"

\* What the runtime does with the promise of main: a promise that resolves
\* lets the process end with 0, an unhandled rejection ends it with 1.
ExitOf(exit) == IF exit = Returned THEN 0 ELSE 1

CliIdle ==
    /\ env = [COUNTRY_CODE |-> NULL, ADMIN_LEVELS |-> NULL, SKIP_WIKIDATA |-> FALSE]
    /\ mainPc = "idle"
    /\ osmCount = 0
    /\ matched = 0
    /\ importErrors = 0
    /\ console = <<>>
    /\ effectExit = Running
    /\ poolClosed = FALSE
    /\ exitStatus = <<>>

CliInit ==
    /\ env \in [COUNTRY_CODE : CountryCodes, ADMIN_LEVELS : AdminLevelsStr,
                SKIP_WIKIDATA : BOOLEAN]
    /\ mainPc = "main"
    /\ osmCount = 0
    /\ matched = 0
    /\ importErrors = 0
    /\ console = <<>>
    /\ effectExit = Running
    /\ poolClosed = FALSE
    /\ exitStatus = <<>>

\* The effect of runImport ends; what is left is the finalizer of
\* runImportWithCleanup.
EndEffect(exit, line) ==
    /\ effectExit' = exit
    /\ console' = IF line = NULL THEN console ELSE Append(console, line)
    /\ mainPc' = "cleanup"

\* main builds the configuration (adminLevelsStr.split throws on undefined)
\* and runImport checks the country code.
Main ==
    /\ mainPc = "main"
    /\ IF env.ADMIN_LEVELS = NULL
       THEN /\ mainPc' = "exit"
            /\ effectExit' = Failed
            /\ UNCHANGED console
       ELSE IF env.COUNTRY_CODE = NULL
            THEN EndEffect(Returned, "COUNTRY_CODE environment variable is required")
            ELSE /\ mainPc' = "step1"
                 /\ UNCHANGED <<effectExit, console>>
    /\ UNCHANGED <<env, osmCount, matched, importErrors, poolClosed, exitStatus>>

\* Step 1: importSingleCountry.
FetchOsmData ==
    /\ mainPc = "step1"
    /\ \/ mainPc' = "step2" /\ UNCHANGED <<effectExit, console>>
       \/ EndEffect(Failed, NULL)
    /\ UNCHANGED <<env, osmCount, matched, importErrors, poolClosed, exitStatus>>

\* Steps 2 and 3: fetchWikidataCategoriesIfNeeded.
FetchWikidataCategories ==
    /\ mainPc = "step2"
    /\ \/ mainPc' = "step4" /\ UNCHANGED <<effectExit, console>>
       \/ ~env.SKIP_WIKIDATA /\ EndEffect(Failed, NULL)
    /\ UNCHANGED <<env, osmCount, matched, importErrors, poolClosed, exitStatus>>

\* Step 4: getOSMRelationsForTransform, transformDatabaseRows and
\* saveTransformedData.
TransformRows ==
    /\ mainPc = "step4"
    /\ \/ \E n \in 0..MaxCliRows, m \in 0..MaxCliRows :
            /\ m <= n
            /\ osmCount' = n
            /\ IF n = 0
               THEN /\ EndEffect(Returned, "No OSM relations found in database. Aborting import.")
                    /\ UNCHANGED matched
               ELSE /\ matched' = m
                    /\ IF m = 0
                       THEN EndEffect(Returned, "No transformed boundaries. Aborting import.")
                       ELSE \/ mainPc' = "step5" /\ UNCHANGED <<effectExit, console>>
                            \/ EndEffect(Failed, NULL)
       \/ EndEffect(Failed, NULL) /\ UNCHANGED <<osmCount, matched>>
    /\ UNCHANGED <<env, importErrors, poolClosed, exitStatus>>

\* Step 5: batchInsertBoundaries, displaySummary and the test of
\* stats.errors.
InsertBoundaries ==
    /\ mainPc = "step5"
    /\ \/ \E e \in 0..matched :
            /\ importErrors' = e
            /\ IF e > 0
               THEN EndEffect(Failed, "Import completed with errors")
               ELSE /\ console' = Append(console, "Import completed successfully!")
                    /\ mainPc' = "step6"
                    /\ UNCHANGED effectExit
       \/ EndEffect(Failed, NULL) /\ UNCHANGED importErrors
    /\ UNCHANGED <<env, osmCount, matched, poolClosed, exitStatus>>

\* Step 6: verifyImport.
VerifyImport ==
    /\ mainPc = "step6"
    /\ \/ EndEffect(Returned, NULL)
       \/ EndEffect(Failed, NULL)
    /\ UNCHANGED <<env, osmCount, matched, importErrors, poolClosed, exitStatus>>

\* runImportWithCleanup: closePool, whose failure is logged and dropped.
Cleanup ==
    /\ mainPc = "cleanup"
    /\ poolClosed' = TRUE
    /\ \/ UNCHANGED console
       \/ console' = Append(console, "Failed to close pool:")
    /\ mainPc' = "exit"
    /\ UNCHANGED <<env, osmCount, matched, importErrors, effectExit, exitStatus>>

\* The promise of main settles and the process ends.
Exit ==
    /\ mainPc = "exit"
    /\ exitStatus' = <<ExitOf(effectExit)>>
    /\ mainPc' = "ended"
    /\ UNCHANGED <<env, osmCount, matched, importErrors, console, effectExit, poolClosed>>

-----------------------------------------------------------------------------
(* The geometry of a relation: mergeWaysIntoRings, simplifyRing,           *)
(* isPointInPolygon, parseRelationGeometry, geometryToEWKT                 *)

Abs(x) == IF x < 0 THEN -x ELSE x

\* const MAX_POINTS_PER_RING = 500
MAX_POINTS_PER_RING == 500

\* The most member ways of a relation, and the most points of a way.
MaxMembers == 3
MaxRingPoints == 1001

\* Coordinates are whole degrees: two of them differ by less than the
\* EPSILON of 1e-7 exactly when they differ by less than 1.
pointsEqual(a, b) == Abs(a[1] - b[1]) < 1 /\ Abs(a[2] - b[2]) < 1

\* A mutant of reverseWay that keeps the direction of the way.
reverseWayKeeps(way) == way

reverseWay(way) == [i \in 1..Len(way) |-> way[Len(way) + 1 - i]]

\* How a way connects to the end of the ring under construction.
ConnectsEnd(way, currentRing) ==
    IF pointsEqual(way[1], Last(currentRing)) THEN "forward"
    ELSE IF pointsEqual(Last(way), Last(currentRing)) THEN "reverse"
    ELSE "none"

\* How a way connects to the start of the ring under construction.
ConnectsStart(way, currentRing) ==
    IF pointsEqual(Last(way), currentRing[1]) THEN "forward"
    ELSE IF pointsEqual(way[1], currentRing[1]) THEN "reverse"
    ELSE "none"

\* adjacency.get(key): the ways of which an endpoint has the key of the
\* point, that is, the same two numbers; they come in the order of wayList.
Adjacent(ways, point) ==
    {w \in 1..Len(ways) : ways[w][1] = point \/ Last(ways[w]) = point}

\* The while loop that extends currentRing: from its end first, from its
\* start when nothing connects to the end, until nothing connects.
RECURSIVE WalkRing(_, _, _)
WalkRing(ways, currentRing, used) ==
    LET atEnd == {w \in Adjacent(ways, Last(currentRing)) \ used :
                    ConnectsEnd(ways[w], currentRing) # "none"}
        atStart == {w \in Adjacent(ways, currentRing[1]) \ used :
                    ConnectsStart(ways[w], currentRing) # "none"}
    IN IF atEnd # {}
       THEN LET conn == CHOOSE w \in atEnd : \A v \in atEnd : w <= v
                way == IF ConnectsEnd(ways[conn], currentRing) = "forward"
                       THEN ways[conn] ELSE reverseWay(ways[conn])
            IN WalkRing(ways, currentRing \o Tail(way), used \cup {conn})
       ELSE IF atStart # {}
       THEN LET conn == CHOOSE w \in atStart : \A v \in atStart : w <= v
                way == IF ConnectsStart(ways[conn], currentRing) = "forward"
                       THEN ways[conn] ELSE reverseWay(ways[conn])
            IN WalkRing(ways, SubSeq(way, 1, Len(way) - 1) \o currentRing,
                        used \cup {conn})
       ELSE [ring |-> currentRing, used |-> used]

\* The for loop over wayList, from the way `start` on.
RECURSIVE MergeFrom(_, _, _, _)

\* A mutant of MergeFrom that forgets the ways the walk of a ring has used
\* when it goes on to the next way of wayList.
MergeFromForgets(ways, start, used, rings) ==
    IF start > Len(ways) THEN rings
    ELSE IF start \in used THEN MergeFrom(ways, start + 1, used, rings)
    ELSE LET walked == WalkRing(ways, ways[start], used \cup {start})
             currentRing == walked.ring
             closed == IF pointsEqual(currentRing[1], Last(currentRing))
                       THEN currentRing ELSE Append(currentRing, currentRing[1])
         IN MergeFrom(ways, start + 1, used \cup {start},
                      IF Len(currentRing) >= 3 THEN Append(rings, closed) ELSE rings)

MergeFrom(ways, start, used, rings) ==
    IF start > Len(ways) THEN rings
    ELSE IF start \in used THEN MergeFrom(ways, start + 1, used, rings)
    ELSE LET walked == WalkRing(ways, ways[start], used \cup {start})
             currentRing == walked.ring
             closed == IF pointsEqual(currentRing[1], Last(currentRing))
                       THEN currentRing ELSE Append(currentRing, currentRing[1])
         IN MergeFrom(ways, start + 1, walked.used,
                      IF Len(currentRing) >= 3 THEN Append(rings, closed) ELSE rings)

mergeWaysIntoRings(ways) ==
    IF Len(ways) = 0 THEN <<>>
    ELSE IF Len(ways) = 1 THEN <<ways[1]>>
    ELSE MergeFrom(ways, 1, {}, <<>>)

\* One turn of the loop of simplifyRing (geometry.ts): the point i is kept
\* when it is not collinear with the last kept point and the next point.
KeepPoint(simplified, ring, i) ==
    LET prev == Last(simplified)
        curr == ring[i]
        next == ring[i + 1]
        crossProduct == (curr[1] - prev[1]) * (next[2] - prev[2])
                         - (curr[2] - prev[2]) * (next[1] - prev[1])
    IN IF Abs(crossProduct) > 0 THEN Append(simplified, curr) ELSE simplified

\* The turns lo..hi of that loop.
RECURSIVE CollinearLoop(_, _, _, _)
CollinearLoop(simplified, ring, lo, hi) ==
    IF lo > hi THEN simplified
    ELSE IF lo = hi THEN KeepPoint(simplified, ring, lo)
    ELSE LET mid == (lo + hi) \div 2
             half == CollinearLoop(simplified, ring, lo, mid)
         IN \* (half holds ring[0] at least)
            IF Len(half) = 0 THEN half ELSE CollinearLoop(half, ring, mid + 1, hi)

\* simplifyRing of geometry.ts: collinear points are removed, the first and
\* the last point are kept.
simplifyCollinear(ring) ==
    IF Len(ring) <= 3 THEN ring
    ELSE Append(CollinearLoop(<<ring[1]>>, ring, 2, Len(ring) - 1), ring[Len(ring)])

\* x < num / den, as JavaScript evaluates it: a division by zero gives an
\* infinity of the sign of num, and NaN (less than nothing) when num is 0.
LessThanQuotient(x, num, den) ==
    IF den = 0 THEN num > 0
    ELSE IF den > 0 THEN x * den < num
    ELSE x * den > num

\* const intersect = yi > y !== yj > y && x < ((xj - xi) * (y - yi)) / (yj - yi + xi)
Intersect(point, pi, pj) ==
    /\ (pi[2] > point[2]) # (pj[2] > point[2])
    /\ LessThanQuotient(point[1], (pj[1] - pi[1]) * (point[2] - pi[2]),
                        pj[2] - pi[2] + pi[1])

\* inside is flipped at each edge (j, i) that intersects.
isPointInPolygon(point, polygon) ==
    LET n == Len(polygon)
        edges == {i \in 1..n :
                    Intersect(point, polygon[i], polygon[IF i = 1 THEN n ELSE i - 1])}
    IN Cardinality(edges) % 2 = 1

\* The inner rings pushed after an outer ring.
MatchedInners(outer, inners) ==
    SelectSeq(inners, LAMBDA inner : Len(inner) # 0 /\ isPointInPolygon(inner[1], outer))

NoGeometry == [type |-> "none", coordinates |-> <<>>]

WaysOfRole(relationMembers, role) ==
    LET selected == SelectSeq(relationMembers, LAMBDA m : m.role = role)
    IN [i \in 1..Len(selected) |-> selected[i].way]

\* parseRelationGeometry, from the merged rings on.
parseRelationGeometry(outer, inner) ==
    IF Len(outer) = 0 THEN NoGeometry
    ELSE LET simplifiedOuterRings == [i \in 1..Len(outer) |-> simplifyCollinear(outer[i])]
             simplifiedInnerRings == [i \in 1..Len(inner) |-> simplifyCollinear(inner[i])]
         IN IF Len(simplifiedOuterRings) > 1
            THEN [type |-> "MultiPolygon",
                  coordinates |-> [i \in 1..Len(simplifiedOuterRings) |->
                        <<simplifiedOuterRings[i]>>
                            \o MatchedInners(simplifiedOuterRings[i], simplifiedInnerRings)]]
            ELSE [type |-> "Polygon",
                  coordinates |-> <<simplifiedOuterRings[1]>>
                        \o MatchedInners(simplifiedOuterRings[1], simplifiedInnerRings)]

\* simplifyRing of the conversion: of a ring of more than targetMaxPoints
\* points every step-th point is kept, and the last point.
simplifyRing(coords, targetMaxPoints) ==
    IF Len(coords) <= targetMaxPoints THEN coords
    ELSE LET step == (Len(coords) + targetMaxPoints - 1) \div targetMaxPoints
             count == (Len(coords) + step - 1) \div step
             simplified == [k \in 1..count |-> coords[(k - 1) * step + 1]]
             last == coords[Len(coords)]
         IN IF simplified[count] # last THEN Append(simplified, last) ELSE simplified

\* A mutant of closeRing that leaves the ring as it is.
closeRingNever(coords) == coords

closeRing(coords) ==
    IF Len(coords) = 0 THEN coords
    ELSE IF coords[1] = coords[Len(coords)] THEN coords
    ELSE Append(coords, coords[1])

\* The text of the rings of one polygon: a ring of less than 4 points is
\* skipped.
RingTexts(rings) ==
    LET closed == [i \in 1..Len(rings) |->
                        closeRing(simplifyRing(rings[i], MAX_POINTS_PER_RING))]
    IN SelectSeq(closed, LAMBDA r : Len(r) >= 4)

NoText == [kind |-> "none", polygons |-> <<>>]

\* 'SRID=4326;POLYGON((0 0,0 0,0 0,0 0))'
MinimalPolygon ==
    [kind |-> "POLYGON", polygons |-> << << << <<0, 0>>, <<0, 0>>, <<0, 0>>, <<0, 0>> >> >> >>]

\* geometryToEWKT: the text is kept as its kind and, polygon by polygon, the
\* points of its rings in the order they are written.
geometryToEWKT(geometry) ==
    IF geometry.type = "Polygon"
    THEN LET rings == RingTexts(geometry.coordinates)
         IN IF Len(rings) = 0 THEN MinimalPolygon
            ELSE [kind |-> "POLYGON", polygons |-> <<rings>>]
    ELSE LET texts == [p \in 1..Len(geometry.coordinates) |->
                            RingTexts(geometry.coordinates[p])]
             polygons == SelectSeq(texts, LAMBDA p : Len(p) > 0)
         IN IF Len(polygons) = 0 THEN MinimalPolygon
            ELSE [kind |-> "MULTIPOLYGON", polygons |-> polygons]

\* The ways a relation is made of here: three fragments of one ring, in both
\* directions, three closed outer ways and two closed inner ways.
Rect(x1, y1, x2, y2) ==
    << <<x1, y1>>, <<x2, y1>>, <<x2, y2>>, <<x1, y2>>, <<x1, y1>> >>
FragmentA == << <<0, 0>>, <<1, 0>> >>
FragmentB == << <<2, 0>>, <<1, 0>> >>
FragmentC == << <<2, 0>>, <<2, 1>>, <<0, 1>>, <<0, 0>> >>
Fragments == {FragmentA, FragmentB, FragmentC}
Reversed(way) == [i \in 1..Len(way) |-> way[Len(way) + 1 - i]]
OuterWays ==
    Fragments \cup {Reversed(f) : f \in Fragments}
        \cup {Rect(0, 0, 8, 8), Rect(-8, -4, 6, 4), Rect(-6, -3, 4, 3)}
InnerWays == {Rect(3, 3, 5, 5), Rect(-2, 0, -1, 1)}
Member(way, role) == [way |-> way, role |-> role]
Members ==
    {Member(w, "outer") : w \in OuterWays} \cup {Member(w, "inner") : w \in InnerWays}

\* A way of n points that are never collinear, closed or not.
LongWay(n, closed) ==
    [i \in 1..n |-> IF closed /\ i = n THEN <<0, 0>> ELSE <<i - 1, (i - 1) % 2>>]
LongLengths ==
    (MAX_POINTS_PER_RING - 1)..(MAX_POINTS_PER_RING + 2)
        \cup (MaxRingPoints - 3)..MaxRingPoints

Relations ==
    (SeqsUpTo(Members, MaxMembers) \ {<<>>})
        \cup {<<Member(LongWay(n, c), "outer")>> : n \in LongLengths, c \in BOOLEAN}

GeometryIdle ==
    /\ members = <<>>
    /\ gpc = "idle"
    /\ outerRings = <<>>
    /\ innerRings = <<>>
    /\ geojson = NoGeometry
    /\ ewkt = NoText

GeometryInit ==
    /\ members \in Relations
    /\ gpc = "input"
    /\ outerRings = <<>>
    /\ innerRings = <<>>
    /\ geojson = NoGeometry
    /\ ewkt = NoText

\* parseRelationGeometry, up to the merged rings.
MergeWays ==
    /\ gpc = "input"
    /\ outerRings' = mergeWaysIntoRings(WaysOfRole(members, "outer"))
    /\ innerRings' = mergeWaysIntoRings(WaysOfRole(members, "inner"))
    /\ gpc' = "merged"
    /\ UNCHANGED <<members, geojson, ewkt>>

\* parseRelationGeometry returns; fetchGeometryBatch skips the relation of
\* which the geometry is null.
ParseRelationGeometry ==
    /\ gpc = "merged"
    /\ geojson' = parseRelationGeometry(outerRings, innerRings)
    /\ gpc' = IF geojson' = NoGeometry THEN "skipped" ELSE "parsed"
    /\ UNCHANGED <<members, outerRings, innerRings, ewkt>>

\* convertToOSMRelation: the geometry becomes its EWKT text.
ConvertToOSMRelation ==
    /\ gpc = "parsed"
    /\ ewkt' = geometryToEWKT(geojson)
    /\ gpc' = "converted"
    /\ UNCHANGED <<members, outerRings, innerRings, geojson>>

-----------------------------------------------------------------------------
(* One geometry batch: fetchGeometryBatch, storeRelationsWithParents,      *)
(* batchInsertRelations, validateGeometries                                *)

\* The most relations of the batch.
MaxElements == 2

\* The tags of a relation: whether it has a name and an admin_level.
ElementTags == [name : BOOLEAN, admin_level : BOOLEAN]

\* The member ways of a relation: none, an inner way alone, a fragment of two
\* points, a closed way, two closed ways.
ElementMembers ==
    {<<>>,
     <<Member(Rect(3, 3, 5, 5), "inner")>>,
     <<Member(FragmentA, "outer")>>,
     <<Member(Rect(0, 0, 8, 8), "outer")>>,
     <<Member(Rect(0, 0, 8, 8), "outer"), Member(Rect(-8, -4, 6, 4), "outer")>>}

Elements == [tags : ElementTags, members : ElementMembers]

\* A mutant of HasNameAndLevel that asks for the name only.
HasName(tags) == tags.name

\* if (!name || !adminLevel) continue
HasNameAndLevel(tags) == tags.name /\ tags.admin_level

\* parseRelationGeometry(el, waysMap)
GeometryOf(el) ==
    parseRelationGeometry(mergeWaysIntoRings(WaysOfRole(el.members, "outer")),
                          mergeWaysIntoRings(WaysOfRole(el.members, "inner")))

\* The loop of fetchGeometryBatch over the first n elements: a relation
\* without name or admin_level, or of which the geometry is null, is left out.
RECURSIVE ParseElements(_, _)
ParseElements(els, n) ==
    IF n = 0 THEN <<>>
    ELSE LET parsed == ParseElements(els, n - 1)
             el == els[n]
         IN IF ~HasNameAndLevel(el.tags) THEN parsed
            ELSE IF GeometryOf(el) = NoGeometry THEN parsed
            ELSE Append(parsed, [relationId |-> n, geometry |-> GeometryOf(el)])

\* ST_MakeValid of the text of a polygon: the polygon that collapses to one
\* point is no polygon any more.
Collapsed == [kind |-> "POINT", polygons |-> <<>>]
MakeValid(text) == IF text = MinimalPolygon THEN Collapsed ELSE text

\* The geometry as the INSERT stores it: ST_GeomFromText(...) in
\* hierarchical/database/insert.ts, ST_MakeValid(ST_GeomFromText(...)) in
\* import/database/insert.ts.
StoredGeometry(text, makeValid) == IF makeValid THEN MakeValid(text) ELSE text

\* The rows of the INSERTs 1..n of batchInsertRelations.
RawRows(relations, makeValid, n) ==
    {[relationId |-> relations[k].relationId,
      geometry |-> StoredGeometry(geometryToEWKT(relations[k].geometry), makeValid)] :
        k \in 1..n}

\* coords.split(',').length: the points of all the rings of the text.
RECURSIVE CoordinateParts(_, _)
CoordinateParts(rings, n) ==
    IF n = 0 THEN 0 ELSE CoordinateParts(rings, n - 1) + Len(rings[n])

\* validateGeometries: the text starts with 'SRID=4326;POLYGON((' and what is
\* between 'POLYGON((' and '))' has 4 parts or more between its commas.
validateGeometries(geom) ==
    /\ geom.kind = "POLYGON"
    /\ CoordinateParts(geom.polygons[1], Len(geom.polygons[1])) >= 4

NoTransaction == [state |-> "none", rows |-> {}]

RawIdle ==
    /\ elements = <<>>
    /\ rawPc = "idle"
    /\ results = <<>>
    /\ rawTxn = NoTransaction
    /\ rawTable = {}
    /\ transformed = {}
    /\ enrichedTable = {}

RawInit ==
    /\ elements \in SeqsUpTo(Elements, MaxElements) \ {<<>>}
    /\ rawPc = "fetch"
    /\ results = <<>>
    /\ rawTxn = NoTransaction
    /\ rawTable = {}
    /\ transformed = {}
    /\ enrichedTable = {}

\* fetchGeometryBatch returns; importCountry goes on to the next level when
\* nothing was parsed.
FetchGeometryBatch ==
    /\ rawPc = "fetch"
    /\ results' = ParseElements(elements, Len(elements))
    /\ rawPc' = IF results' = <<>> THEN "skipped" ELSE "store"
    /\ UNCHANGED <<elements, rawTxn, rawTable, transformed, enrichedTable>>

\* storeRelationsWithParents and batchInsertRelations: BEGIN, an INSERT per
\* relation, COMMIT.  The first statement that fails ends the generator: the
\* rows before it stay in a transaction that is neither committed nor rolled
\* back.
StoreRelations ==
    /\ rawPc = "store"
    /\ \E makeValid \in BOOLEAN :
        \/ \E failing \in 1..Len(results) :
            \* the INSERT `failing` fails
            /\ rawTxn' = [state |-> "open", rows |-> RawRows(results, makeValid, failing - 1)]
            /\ rawPc' = "failed"
            /\ UNCHANGED rawTable
        \/ \* COMMIT fails
            /\ rawTxn' = [state |-> "open", rows |-> RawRows(results, makeValid, Len(results))]
            /\ rawPc' = "failed"
            /\ UNCHANGED rawTable
        \/ \* COMMIT
            /\ rawTxn' = [state |-> "committed",
                          rows |-> RawRows(results, makeValid, Len(results))]
            /\ rawTable' = rawTable \cup RawRows(results, makeValid, Len(results))
            /\ rawPc' = "transform"
    /\ UNCHANGED <<elements, results, transformed, enrichedTable>>

\* The transform of the rows read back (ST_AsEWKT): the rows that have a
\* Commons category and a geometry validateGeometries lets through.
TransformRaw ==
    /\ rawPc = "transform"
    /\ \E withCategory \in SUBSET rawTable :
            transformed' = {row \in withCategory : validateGeometries(row.geometry)}
    /\ rawPc' = IF transformed' = {} THEN "done" ELSE "insert"
    /\ UNCHANGED <<elements, results, rawTxn, rawTable, enrichedTable>>

\* batchInsertBoundaries(transformedBoundaries): each row is inserted or is an
\* error of the statistics.
InsertEnriched ==
    /\ rawPc = "insert"
    /\ \E inserted \in SUBSET transformed : enrichedTable' = inserted
    /\ rawPc' = "done"
    /\ UNCHANGED <<elements, results, rawTxn, rawTable, transformed>>

-----------------------------------------------------------------------------
(* Step 1 of runImport: the country run inside the pipeline *)

\* runImport yields importSingleCountry(countryCode, adminLevelRange), which
\* yields importCountry: the country run starts.
ImportSingleCountry ==
    /\ mainPc = "step1"
    /\ cpc = "idle"
    /\ StartRun

\* importCountry has returned (after markCompleted, or after markFailed and
\* return): the Effect of importSingleCountry succeeds and runImport goes on
\* with its next statement.
ImportReturns ==
    /\ mainPc = "step1"
    /\ cpc = "done"
    /\ mainPc' = "step2"
    /\ UNCHANGED <<env, osmCount, matched, importErrors, console, effectExit,
                   poolClosed, exitStatus>>

\* importCountry has failed: the failure is the failure of runImport.
ImportFails ==
    /\ mainPc = "step1"
    /\ cpc = "error"
    /\ EndEffect(Failed, NULL)
    /\ UNCHANGED <<env, osmCount, matched, importErrors, poolClosed, exitStatus>>

-----------------------------------------------------------------------------
(* The interrupted run: a signal ends the process *)

\* The batches of the run, and the rows of a batch.
MaxTxns == 2
RowsPerTxn == 2
BatchRows(k) == {<<k, r>> : r \in 1..RowsPerTxn}

\* The session before BEGIN: every statement is its own transaction.
Autocommit == [state |-> "none", aborted |-> FALSE, pending |-> {}]

\* A mutant of BeginTransaction that does not open a transaction.
BeginNothing(s) == s

\* client.query('BEGIN')
BeginTransaction(s) == [s EXCEPT !.state = "open"]

\* client.query(insertQuery, ...) as the server executes it: inside a
\* transaction block the row is pending until COMMIT, outside of one it is
\* committed at once; in an aborted block the statement is refused.
InsertedRow(s, row, ok) ==
    IF s.state = "open"
    THEN IF ok /\ ~s.aborted
         THEN [s EXCEPT !.pending = @ \cup {row}]
         ELSE [s EXCEPT !.aborted = TRUE]
    ELSE s
VisibleAfterInsert(s, rows, row, ok) ==
    IF s.state # "open" /\ ok THEN rows \cup {row} ELSE rows

\* client.query('COMMIT'): the pending rows of a block that is not aborted
\* become visible.
VisibleAfterCommit(s, rows) ==
    IF s.state = "open" /\ ~s.aborted THEN rows \cup s.pending ELSE rows

\* The server loses the connection of the session: it rolls back the
\* transaction that is open.
Disconnected(s) ==
    IF s.state = "open"
    THEN [state |-> "rolled_back", aborted |-> s.aborted, pending |-> {}]
    ELSE s

FirstRow(k) == [batch |-> k, row |-> 1]

InterruptIdle ==
    /\ alive = FALSE
    /\ ipc = "idle"
    /\ cursor = FirstRow(0)
    /\ session = Autocommit
    /\ tableRows = {}

InterruptInit ==
    /\ alive = TRUE
    /\ ipc = "fetch"
    /\ cursor = FirstRow(1)
    /\ session = Autocommit
    /\ tableRows = {}

\* The run calls fetchWithRetry for the data of its next batch.
RunStartsRequest ==
    /\ alive
    /\ ipc = "fetch"
    /\ StartRequest
    /\ ipc' = "fetching"
    /\ UNCHANGED <<alive, cursor, session, tableRows>>

\* One attempt of the request, in the process that is alive.
RunFetchAttempt ==
    /\ alive
    /\ ipc = "fetching"
    /\ FetchAttempt

\* fetchWithRetry has ended: with the data the run goes on to store the
\* batch, with a failure it ends.
RequestReturns ==
    /\ alive
    /\ ipc = "fetching"
    /\ rpc = "done"
    /\ ipc' = IF result = Success THEN "store" ELSE "ended"
    /\ UNCHANGED <<alive, cursor, session, tableRows>>

\* processBatch: connectClient and beginTransaction.
BeginBatch ==
    /\ alive
    /\ ipc = "store"
    /\ session' = BeginTransaction(session)
    /\ ipc' = "insert"
    /\ UNCHANGED <<alive, cursor, tableRows>>

\* processBatchWithClient: the INSERT of the next row of the batch, whose
\* failure Effect.either captures.
InsertRow ==
    /\ alive
    /\ ipc = "insert"
    /\ \E ok \in BOOLEAN :
            LET row == <<cursor.batch, cursor.row>> IN
            /\ session' = InsertedRow(session, row, ok)
            /\ tableRows' = VisibleAfterInsert(session, tableRows, row, ok)
    /\ IF cursor.row < RowsPerTxn
       THEN cursor' = [cursor EXCEPT !.row = @ + 1] /\ ipc' = ipc
       ELSE cursor' = cursor /\ ipc' = "commit"
    /\ UNCHANGED alive

\* commitTransaction, releaseClient, and the next batch.
CommitBatch ==
    /\ alive
    /\ ipc = "commit"
    /\ tableRows' = VisibleAfterCommit(session, tableRows)
    /\ session' = Autocommit
    /\ IF cursor.batch < MaxTxns
       THEN cursor' = FirstRow(cursor.batch + 1) /\ ipc' = "fetch"
       ELSE cursor' = cursor /\ ipc' = "ended"
    /\ UNCHANGED alive

\* SIGINT or SIGTERM: no handler is installed, the process ends where it is.
\* Its connections close, and the attempts and the sleep of fetchWithRetry
\* end with it.
Kill ==
    /\ alive
    /\ ipc # "ended"
    /\ alive' = FALSE
    /\ session' = Disconnected(session)
    /\ UNCHANGED <<ipc, cursor, tableRows>>

-----------------------------------------------------------------------------
(* Specifications *)

\* What each part of the program leaves alone.
exceptRetry == <<countryVars, multiVars, wikiVars, idVars, persistVars, upsertVars, cliVars, geometryVars, rawVars, interruptVars>>
exceptCountry == <<retryVars, multiVars, wikiVars, idVars, persistVars, upsertVars, cliVars, geometryVars, rawVars, interruptVars>>
exceptMulti == <<retryVars, countryVars, wikiVars, idVars, persistVars, upsertVars, cliVars, geometryVars, rawVars, interruptVars>>
exceptWiki == <<retryVars, countryVars, multiVars, idVars, persistVars, upsertVars, cliVars, geometryVars, rawVars, interruptVars>>
exceptIds == <<retryVars, countryVars, multiVars, wikiVars, persistVars, upsertVars, cliVars, geometryVars, rawVars, interruptVars>>
exceptPersist == <<retryVars, countryVars, multiVars, wikiVars, idVars, upsertVars, cliVars, geometryVars, rawVars, interruptVars>>
exceptUpsert == <<retryVars, countryVars, multiVars, wikiVars, idVars, persistVars, cliVars, geometryVars, rawVars, interruptVars>>
exceptCli == <<retryVars, countryVars, multiVars, wikiVars, idVars, persistVars, upsertVars, geometryVars, rawVars, interruptVars>>
exceptGeometry == <<retryVars, countryVars, multiVars, wikiVars, idVars, persistVars, upsertVars, cliVars, rawVars, interruptVars>>
exceptRaw == <<retryVars, countryVars, multiVars, wikiVars, idVars, persistVars, upsertVars, cliVars, geometryVars, interruptVars>>
exceptInterrupt == <<retryVars, countryVars, multiVars, wikiVars, idVars, persistVars, upsertVars, cliVars, geometryVars, rawVars>>

RetryNext ==
    \/ StartRequest /\ UNCHANGED exceptRetry
    \/ FetchAttempt /\ UNCHANGED exceptRetry

InitRetry == RetryInit /\ CountryIdle /\ MultiIdle /\ WikiIdle /\ IdsIdle /\ PersistIdle /\ UpsertIdle /\ CliIdle /\ GeometryIdle /\ RawIdle /\ InterruptIdle

SpecRetry == InitRetry /\ [][RetryNext]_vars

MultiNext ==
    \/ StartAll /\ UNCHANGED exceptMulti
    \/ (\E c \in Countries : StartCountry(c)) /\ UNCHANGED exceptMulti
    \/ (\E c \in Countries : FinishCountry(c)) /\ UNCHANGED exceptMulti
    \/ EndBatch /\ UNCHANGED exceptMulti

InitMulti == MultiIdle /\ RetryInit /\ CountryIdle /\ WikiIdle /\ IdsIdle /\ PersistIdle /\ UpsertIdle /\ CliIdle /\ GeometryIdle /\ RawIdle /\ InterruptIdle

SpecMulti == InitMulti /\ [][MultiNext]_vars

WikiNext ==
    \/ StartWikidata /\ UNCHANGED exceptWiki
    \/ ProcessBatch /\ UNCHANGED exceptWiki

InitWiki == WikiIdle /\ RetryInit /\ CountryImported /\ MultiIdle /\ IdsIdle /\ PersistIdle /\ UpsertIdle /\ CliIdle /\ GeometryIdle /\ RawIdle /\ InterruptIdle

SpecWiki == InitWiki /\ [][WikiNext]_vars

IdsNext ==
    \/ ParseRelation /\ UNCHANGED exceptIds
    \/ ExtractFromRows /\ UNCHANGED exceptIds
    \/ ExtractFromBoundaries /\ UNCHANGED exceptIds
    \/ Enrich /\ UNCHANGED exceptIds
    \/ RequestCategories /\ UNCHANGED exceptIds

InitIds == IdsInit /\ RetryInit /\ CountryIdle /\ MultiIdle /\ WikiIdle /\ PersistIdle /\ UpsertIdle /\ CliIdle /\ GeometryIdle /\ RawIdle /\ InterruptIdle

SpecIds == InitIds /\ [][IdsNext]_vars

PersistNext ==
    \/ StartInsertBoundaries /\ UNCHANGED exceptPersist
    \/ PersistBatch /\ UNCHANGED exceptPersist
    \/ InsertRelations /\ UNCHANGED exceptPersist

InitPersist == PersistIdle /\ RetryInit /\ CountryIdle /\ MultiIdle /\ WikiIdle /\ IdsIdle /\ UpsertIdle /\ CliIdle /\ GeometryIdle /\ RawIdle /\ InterruptIdle

SpecPersist == InitPersist /\ [][PersistNext]_vars

UpsertNext ==
    \/ RunPipeline /\ UNCHANGED exceptUpsert

InitUpsert == UpsertInit /\ RetryInit /\ CountryIdle /\ MultiIdle /\ WikiIdle /\ IdsIdle /\ PersistIdle /\ CliIdle /\ GeometryIdle /\ RawIdle /\ InterruptIdle

SpecUpsert == InitUpsert /\ [][UpsertNext]_vars

CliNext ==
    \/ Main /\ UNCHANGED exceptCli
    \/ FetchOsmData /\ UNCHANGED exceptCli
    \/ FetchWikidataCategories /\ UNCHANGED exceptCli
    \/ TransformRows /\ UNCHANGED exceptCli
    \/ InsertBoundaries /\ UNCHANGED exceptCli
    \/ VerifyImport /\ UNCHANGED exceptCli
    \/ Cleanup /\ UNCHANGED exceptCli
    \/ Exit /\ UNCHANGED exceptCli

InitCli == CliInit /\ RetryInit /\ CountryIdle /\ MultiIdle /\ WikiIdle /\ IdsIdle /\ PersistIdle /\ UpsertIdle /\ GeometryIdle /\ RawIdle /\ InterruptIdle

SpecCli == InitCli /\ [][CliNext]_vars

GeometryNext ==
    \/ MergeWays /\ UNCHANGED exceptGeometry
    \/ ParseRelationGeometry /\ UNCHANGED exceptGeometry
    \/ ConvertToOSMRelation /\ UNCHANGED exceptGeometry

InitGeometry == GeometryInit /\ RetryInit /\ CountryIdle /\ MultiIdle /\ WikiIdle /\ IdsIdle /\ PersistIdle /\ UpsertIdle /\ CliIdle /\ RawIdle /\ InterruptIdle

SpecGeometry == InitGeometry /\ [][GeometryNext]_vars

RawNext ==
    \/ FetchGeometryBatch /\ UNCHANGED exceptRaw
    \/ StoreRelations /\ UNCHANGED exceptRaw
    \/ TransformRaw /\ UNCHANGED exceptRaw
    \/ InsertEnriched /\ UNCHANGED exceptRaw

InitRaw == RawInit /\ RetryInit /\ CountryIdle /\ MultiIdle /\ WikiIdle /\ IdsIdle /\ PersistIdle /\ UpsertIdle /\ CliIdle /\ GeometryIdle /\ InterruptIdle

SpecRaw == InitRaw /\ [][RawNext]_vars

exceptRun == <<countryVars, multiVars, wikiVars, idVars, persistVars, upsertVars, cliVars, geometryVars, rawVars>>

InterruptNext ==
    \/ RunStartsRequest /\ UNCHANGED exceptRun
    \/ RunFetchAttempt /\ UNCHANGED exceptRetry
    \/ RequestReturns /\ UNCHANGED exceptInterrupt
    \/ BeginBatch /\ UNCHANGED exceptInterrupt
    \/ InsertRow /\ UNCHANGED exceptInterrupt
    \/ CommitBatch /\ UNCHANGED exceptInterrupt
    \/ Kill /\ UNCHANGED exceptInterrupt

InitInterrupt == InterruptInit /\ RetryInit /\ CountryIdle /\ MultiIdle /\ WikiIdle /\ IdsIdle /\ PersistIdle /\ UpsertIdle /\ CliIdle /\ GeometryIdle /\ RawIdle

SpecInterrupt == InitInterrupt /\ [][InterruptNext]_vars

Init == CountryInit /\ RetryInit /\ MultiIdle /\ WikiIdle /\ IdsIdle /\ PersistIdle /\ UpsertIdle /\ CliIdle /\ GeometryIdle /\ RawIdle /\ InterruptIdle

Next ==
    \/ StartRun /\ UNCHANGED exceptCountry
    \/ FetchRoot /\ UNCHANGED exceptCountry
    \/ FetchChildren /\ UNCHANGED exceptCountry
    \/ CheckRelations /\ UNCHANGED exceptCountry
    \/ ProcessLevel /\ UNCHANGED exceptCountry
    \/ MarkCompleted /\ UNCHANGED exceptCountry
    \/ Interrupt /\ UNCHANGED exceptCountry

Spec == Init /\ [][Next]_vars

InitImport == CliInit /\ CountryInit /\ RetryInit /\ MultiIdle /\ WikiIdle /\ IdsIdle /\ PersistIdle /\ UpsertIdle /\ GeometryIdle /\ RawIdle /\ InterruptIdle

ImportNext ==
    \/ Main /\ UNCHANGED exceptCli
    \/ ImportSingleCountry /\ UNCHANGED exceptCountry
    \/ FetchRoot /\ UNCHANGED exceptCountry
    \/ FetchChildren /\ UNCHANGED exceptCountry
    \/ CheckRelations /\ UNCHANGED exceptCountry
    \/ ProcessLevel /\ UNCHANGED exceptCountry
    \/ MarkCompleted /\ UNCHANGED exceptCountry
    \/ ImportReturns /\ UNCHANGED exceptCli
    \/ ImportFails /\ UNCHANGED exceptCli
    \/ FetchWikidataCategories /\ UNCHANGED exceptCli
    \/ TransformRows /\ UNCHANGED exceptCli
    \/ InsertBoundaries /\ UNCHANGED exceptCli
    \/ VerifyImport /\ UNCHANGED exceptCli
    \/ Cleanup /\ UNCHANGED exceptCli
    \/ Exit /\ UNCHANGED exceptCli

SpecImport == InitImport /\ [][ImportNext]_vars

-----------------------------------------------------------------------------
(* Properties of the HTTP retry client *)

\* The number of fetch() calls of the current logical request.
Calls == Cardinality({i \in DOMAIN log : log[i].ev = "call"})

\* The retryable conditions as the specification lists them.
SpecRetryable(o) ==
    o.kind = "neterr" \/ (o.kind = "resp" /\ o.status \in {429, 500, 502, 503, 504})

\* A 2xx response.
SpecSuccess(o) == o.kind = "resp" /\ o.status >= 200 /\ o.status <= 299

\* A non-2xx response that is not retryable.
SpecTerminal(o) == o.kind = "resp" /\ ~SpecSuccess(o) /\ ~SpecRetryable(o)

\* The attempts until the first success among the answers seen so far
\* (0: none succeeded yet).
FirstSuccess ==
    LET S == {i \in DOMAIN outcomes : SpecSuccess(outcomes[i])}
    IN IF S = {} THEN 0 ELSE CHOOSE i \in S : \A j \in S : i <= j

\* C1: a logical request issues at most MAX_ATTEMPTS = 3 HTTP calls; when
\* every answer before the first success is retryable (transport error,
\* 429, 500, 502, 503, 504), a finished request has made
\* min(3, attempts until the first success) calls: as many as it took to
\* succeed, or 3 when the first three answers were all retryable failures.
C1_CallCount ==
    /\ Calls <= 3
    /\ Calls = Len(outcomes)
    /\ (rpc = "done"
        /\ \A i \in DOMAIN outcomes : SpecRetryable(outcomes[i]) \/ SpecSuccess(outcomes[i]))
       => Calls = (IF FirstSuccess = 0 THEN 3 ELSE Min(3, FirstSuccess))

\* C1 witness: two retryable failures (a transport error, then a 429) and a
\* success at the third call.
C1_Witness ==
    /\ rpc = "done"
    /\ result = Success
    /\ Len(outcomes) = 3
    /\ outcomes[1].kind = "neterr"
    /\ outcomes[2].status = 429
    /\ Calls = 3

-----------------------------------------------------------------------------
(* Properties of discovery and of the country run *)

\* A run that came to its end without being interrupted: importCountry
\* returned, or its Effect failed.
Finished == cpc \in {"done", "error"}

\* The levels whose geometry the run has fetched, and those it has persisted.
FetchedLevels == {events[i].level : i \in {j \in DOMAIN events : events[j].ev = "geometry"}}
PersistedLevels == {events[i].level : i \in {j \in DOMAIN events : events[j].ev = "persist"}}

\* C4: in hierarchical discovery a level that yields no relations is skipped,
\* not aborted: the probe of the next level follows it, against the same
\* parent set; the parent set held for the next probe is the one the empty
\* level was probed with; and once discovery has returned, every level from
\* 3 to the end of the range was probed.
C4_SkipEmptyLevel ==
    /\ \A i \in DOMAIN queries :
          (queries[i].kind = "child" /\ ~queries[i].failed /\ queries[i].found = {}) =>
              /\ i < Len(queries) =>
                    /\ queries[i + 1].kind = "child"
                    /\ queries[i + 1].level = queries[i].level + 1
                    /\ queries[i + 1].parents = queries[i].parents
              /\ (i = Len(queries) /\ cpc = "children") =>
                    /\ parentRelations = queries[i].parents
                    /\ level = queries[i].level + 1
    /\ cpc \in {"discovered", "levels", "complete", "done"} =>
          {queries[i].level : i \in {j \in DOMAIN queries : queries[j].kind = "child"}}
              = 3..adminLevelRange.max

\* C4 witness: level 3 was probed against the root's relation {1} and was
\* empty; level 4 was then probed against {1} again and found {2}.
C4_Witness ==
    /\ cpc = "discovered"
    /\ Len(queries) = 3
    /\ queries[1].found = {1}
    /\ queries[2] = ChildQuery(3, {1}, {}, FALSE)
    /\ queries[3] = ChildQuery(4, {1}, {2}, FALSE)
    /\ relationMap[4] = {2}

\* C5: in a run whose level range starts at a level with relations and
\* contains an empty level, every deeper level of the range that has
\* relations is still processed (its geometry is fetched) by the time the
\* loop over the levels is over; the run does not stop at the empty level.
C5_DeeperLevelsProcessed ==
    (cpc \in {"complete", "done"} /\ relationMap[adminLevelRange.min] # {}) =>
        \A l \in adminLevelRange.min..adminLevelRange.max :
            relationMap[l] # {} => l \in FetchedLevels

\* C6: discovery issues the country-root query at the configured min_level
\* of the range, and the child queries are those of the levels min_level+1
\* to max_level.
C6_RootAtMinLevel ==
    \A i \in DOMAIN queries :
        IF queries[i].kind = "root"
        THEN queries[i].level = adminLevelRange.min
        ELSE queries[i].level \in (adminLevelRange.min + 1)..adminLevelRange.max

\* C7: a terminal error of discovery or of the geometry fetch aborts the
\* country and leaves its tracker row at status failed, with last_error
\* describing the cause.
C7_FetchErrorMarksFailed ==
    (cpc = "error" /\ runError \in FetchErrors) =>
        /\ progress.status = "failed"
        /\ progress.last_error = ErrorMessage(runError)

\* C8: a run that finishes without being interrupted leaves the tracker
\* status at completed or failed, never at in_progress.
C8_FinishedRunIsTerminal ==
    Finished => progress.status \in {"completed", "failed"}

\* C9: in every tracker state reachable by any sequence of runs,
\* status = completed implies completed_at is not null and last_error is
\* null.
C9_ProgressConsistency ==
    progress.status = "completed" =>
        /\ progress.completed_at # NULL
        /\ progress.last_error = NULL

\* C10: the import-start transition, from any prior status or from no row,
\* leaves the row at status in_progress with started_at set, completed_at
\* cleared, current_admin_level at the configured min_level and the counters
\* relations_fetched and errors at zero.
C10_ImportStart ==
    cpc = "root" =>
        /\ progress.status = "in_progress"
        /\ progress.started_at = "now"
        /\ progress.completed_at = NULL
        /\ progress.current_admin_level = adminLevelRange.min
        /\ progress.relations_fetched = 0
        /\ progress.errors = 0


\* C11: within a single country run, the tracker's current_admin_level never
\* decreases from one tracker update to the next (the step that starts a new
\* run, the only one that sets cpc to "root", is where a run begins).
C11_LevelMonotonic ==
    [][(cpc' # "root" /\ progress # NoRow) =>
            progress'.current_admin_level >= progress.current_admin_level]_vars

\* A run has updated the tracker at two levels, the second above the start.
C11_Witness ==
    /\ \E i, j \in 1..Len(events) :
            /\ i < j
            /\ events[i].ev = "progress" /\ events[j].ev = "progress"
            /\ events[i].level < events[j].level
    /\ progress.current_admin_level = MaxLevel

-----------------------------------------------------------------------------
(* Properties of the multi-country run *)

\* C12: in multi-country mode a country whose tracker status is completed is
\* skipped: a pipeline is started only for a code whose row is absent or has
\* a status other than completed.
C12_CompletedSkipped ==
    [][\A c \in Countries :
            (pipeline[c] = "pending" /\ pipeline'[c] = "running") =>
                c \in getPendingCountries(Countries, tracker)]_vars

\* C13: the failure of one country's pipeline does not affect the others:
\* when the multi-country run is over, every other country of the catalogue
\* has run to its own completed or failed outcome.
C13_FailureIsolated ==
    mpc \in {"done", "failed"} =>
        \A c \in Countries :
            pipeline[c] # "error" =>
                /\ pipeline[c] \in {"completed", "failed"}
                /\ tracker[c] # NoRow
                /\ tracker[c].status \in {"completed", "failed"}

\* Batches hold at most COUNTRY_BATCH_SIZE codes; a batch after the first is
\* entered right after a sleep of COUNTRY_BATCH_MS, and only when every
\* pipeline of the batches before it has ended.
BatchSequencing ==
    /\ \A k \in 1..Len(Batches) : Len(Batches[k]) <= 5
    /\ \A i \in 1..Len(mlog) :
            (mlog[i].ev = "batch" /\ mlog[i].batch > 1) =>
                (i > 1 /\ mlog[i - 1] = WaitEvent(5000))
    /\ \A c \in Countries :
            (mpc = "batch" /\ \E k \in 1..(batchIdx - 1) : InBatch(c, k)) =>
                PipelineEnded(c)
    /\ \A c \in Countries :
            (pipeline[c] # "pending" /\ mpc = "batch") =>
                \E k \in 1..batchIdx : InBatch(c, k)

\* The pipelines of the running batch do not wait for one another: one that
\* has not started yet can start whatever the others are doing.
BatchConcurrent ==
    \A c \in Countries :
        (mpc = "batch" /\ InBatch(c, batchIdx) /\ pipeline[c] = "pending") =>
            ENABLED StartCountry(c)

\* C14: pending countries are processed in batches of at most 5; the
\* pipelines of one batch execute concurrently, not one after another; batch
\* k+1 starts only after every pipeline of batch k has finished and a
\* 5000 ms sleep has elapsed.
C14_ConcurrentBatches == BatchSequencing /\ BatchConcurrent

-----------------------------------------------------------------------------
(* Properties of the Wikidata client *)

WikiCalls == SelectSeq(wlog, LAMBDA e : e.ev = "call")

CallsOfBatch(k) == SelectSeq(wlog, LAMBDA e : e.ev = "call" /\ e.batch = k)

\* The number of batches of the request: Math.ceil(items.length / batchSize).
TotalBatches == (Len(uniqueIds) + wBatchSize - 1) \div wBatchSize

WikiRetryable(o) ==
    o.kind = "neterr" \/ (o.kind = "resp" /\ o.status \in {429, 500, 502, 503, 504})

\* C15: a whole-batch Wikidata failure (transport error, non-2xx, malformed
\* JSON) contributes an empty result for that batch only: the remaining
\* batches are still requested, the fetch does not fail (the categories of
\* the other batches are returned), and the tracker row stays completed.
C15_WikidataBatchFailure ==
    /\ \A k \in 1..Len(batchResults) :
            (\E j \in 1..Len(wlog) :
                /\ wlog[j].ev = "call" /\ wlog[j].batch = k
                /\ wlog[j].outcome \in WikiFailures) => batchResults[k] = {}
    /\ wpc = "done" =>
            /\ wresult.tag = "ok"
            /\ \A k \in 1..TotalBatches : Len(CallsOfBatch(k)) >= 1
            /\ wresult.categories =
                    UNION {CategoryMap(WikiCalls[j].outcome) :
                            j \in {i \in 1..Len(WikiCalls) :
                                    WikiCalls[i].outcome \notin WikiFailures}}
    /\ progress.status = "completed"

\* A request ended whose first batch failed and whose later batch brought a
\* category.
C15_Witness ==
    /\ wpc = "done"
    /\ \E j, k \in 1..Len(WikiCalls) :
            /\ j < k
            /\ WikiCalls[j].outcome \in WikiFailures
            /\ WikiCalls[k].outcome \notin WikiFailures
            /\ CategoryMap(WikiCalls[k].outcome) # {}
    /\ wresult.tag = "ok" /\ wresult.categories # {}

\* C16: a 429, a 5xx or a transport error from Wikidata is retried under the
\* retry policy of Overpass: a batch that is treated as failed on such an
\* answer has been requested MAX_ATTEMPTS times.
C16_WikidataRetried ==
    \A k \in 1..Len(batchResults) :
        LET calls == CallsOfBatch(k) IN
        WikiRetryable(Last(calls).outcome) => Len(calls) = MAX_ATTEMPTS

-----------------------------------------------------------------------------
(* Properties of the wikidata id *)

\* C17: every wikidata id that is extracted from OSM data, sent to the
\* Wikidata endpoint, used as a category-map key or stored in a table
\* matches ^Q[0-9]+$; no stage strips the Q prefix.
C17_QPrefixPreserved ==
    (idStage \in {"extracted", "sent", "stored"} /\ idValue # NoTag) => IsQid(idValue)

\* The same, for a bare Q-id tag and the code that does not go through the
\* extraction over OSMBoundary[].
QPrefixPreservedOnRows ==
    (/\ idStage \in {"extracted", "sent", "stored"}
     /\ idValue # NoTag
     /\ idPath # "boundaries"
     /\ osmTag \in QIds) => idValue = osmTag

-----------------------------------------------------------------------------
(* Properties of the batch persister *)

RowsOf(batch) == {batch[k] : k \in 1..Len(batch)}

\* In a batch that ends with COMMIT every row has been attempted, and each
\* row is counted as inserted or captured as {record, error}.
RowFailureCaptured ==
    \A k \in 1..Len(persistLog) :
        LET e == persistLog[k] IN
        e.success =>
            /\ e.attempted = Len(e.rows)
            /\ {r.record : r \in e.errors} \cup e.insertedRows = RowsOf(e.rows)
            /\ {r.record : r \in e.errors} \cap e.insertedRows = {}

\* C18: within a batch, a per-row upsert failure is captured as {record name,
\* error} and the same transaction continues: the remaining rows of the
\* batch are still attempted and the batch commits its successful rows.
C18_RowFailureNotFatal ==
    /\ RowFailureCaptured
    /\ \A k \in 1..Len(persistLog) :
            LET e == persistLog[k] IN
            (e.success /\ e.errors # {}) => e.insertedRows \subseteq admin_boundaries

\* C19: a transaction-level failure of a batch (failure to begin, connection
\* loss, error at commit) is rolled back so that none of that batch's rows
\* persist, and processing continues with the next batch.
C19_BatchFailureRolledBack ==
    /\ \A k \in 1..Len(persistLog) :
            LET e == persistLog[k] IN
            ~e.success => RowsOf(e.rows) \cap admin_boundaries = {}
    /\ ppc # "failed"
    /\ ppc = "done" =>
            /\ Len(persistLog) = (Len(boundaries) + pBatchSize - 1) \div pBatchSize
            /\ \A k \in 1..Len(persistLog) : persistLog[k].batch = k

\* A call ended in which a batch failed at COMMIT after its rows were
\* inserted, and a later batch committed its rows.
C19_Witness ==
    /\ ppc = "done"
    /\ \E j, k \in 1..Len(persistLog) :
            /\ j < k
            /\ ~persistLog[j].success /\ persistLog[j].cause = "commit"
            /\ persistLog[k].success /\ persistLog[k].persisted # {}
            /\ persistLog[k].persisted \subseteq admin_boundaries

\* The batches of admin_boundaries give their connection back.
BoundaryBatchesRelease == CheckedOut("admin_boundaries") = 0

\* C20: every connection acquired for a batch (an enriched-table batch or a
\* raw-table level insert) is returned to the pool exactly once when that
\* batch ends, whether it committed or failed; none stays checked out.
C20_ConnectionsReleased ==
    CheckedOut("admin_boundaries") = 0 /\ CheckedOut("osm_relations") = 0

-----------------------------------------------------------------------------
(* Properties of the table admin_boundaries *)

\* C21: running the pipeline twice in succession for the same country, with
\* the same responses, leaves admin_boundaries after the second run identical
\* to what it was after the first.
C21_UpsertIdempotent ==
    \A k \in 2..Len(snapshots) : snapshots[k] = snapshots[k - 1]

\* Two runs have ended; the first one changed a row that was there and added
\* one that was not.
C21_Witness ==
    /\ runs = 2
    /\ Cardinality(snapshots[1]) = 2
    /\ \E r \in snapshots[1] :
            r.id = 1 /\ \E b \in Boundaries :
                /\ b.wikidata_id = r.wikidata_id /\ b.value = r.value
                /\ upstream[1] = b
    /\ enriched = snapshots[2]

\* C22: after any sequence of imports, no two rows of admin_boundaries share
\* a wikidata_id.
C22_UniqueWikidataId ==
    \A r, q \in enriched : r.wikidata_id = q.wikidata_id => r = q

\* A run has written a wikidata_id that was in the table with another value,
\* from boundaries that held the id twice.
C22_Witness ==
    /\ runs >= 1
    /\ Len(upstream) = 2 /\ upstream[1].wikidata_id = upstream[2].wikidata_id
    /\ upstream[1].value # upstream[2].value
    /\ \E r \in enriched : r.wikidata_id = upstream[1].wikidata_id /\ r.value = upstream[1].value
    /\ Cardinality(enriched) = 1

-----------------------------------------------------------------------------
(* Properties of the command line entry *)

\* The import succeeded: the boundaries were inserted without an error and
\* verified.
ImportSucceeded ==
    /\ effectExit = Returned
    /\ matched > 0 /\ importErrors = 0
    /\ Len(console) > 0
    /\ \E k \in 1..Len(console) : console[k] = "Import completed successfully!"

\* C23: the process exits with status 0 only when the import succeeds; it
\* exits non-zero when the import completes with errors and on a
\* configuration failure such as a missing country code.
C23_ExitStatus ==
    exitStatus # <<>> =>
        /\ exitStatus[1] = 0 => ImportSucceeded
        /\ importErrors > 0 => exitStatus[1] # 0
        /\ (env.COUNTRY_CODE = NULL \/ env.ADMIN_LEVELS = NULL) => exitStatus[1] # 0

\* The part of C23 that the code keeps: an import that completes with errors
\* ends the process with a status other than 0.
ExitStatusOfErrors ==
    (exitStatus # <<>> /\ importErrors > 0) => exitStatus[1] # 0

\* An import that completed with errors has ended the process.
ExitStatusOfErrors_Witness ==
    exitStatus = <<1>> /\ importErrors > 0

-----------------------------------------------------------------------------
(* Properties of the loop over the admin levels *)

\* C24: within a country run the admin levels are processed strictly in
\* ascending order, and the persistence of a level has completed before the
\* geometry fetch of the next processed level begins.
C24_LevelsAscending ==
    \A i, j \in DOMAIN events :
        i < j =>
            /\ (events[i].ev = "geometry" /\ events[j].ev = "geometry") =>
                    events[i].level < events[j].level
            /\ (events[i].ev = "geometry" /\ events[j].ev = "persist") =>
                    events[i].level <= events[j].level

\* Two levels were fetched and persisted, one after the other.
C24_Witness ==
    /\ Len(events) >= 5
    /\ \E i, j \in DOMAIN events :
            /\ i < j
            /\ events[i].ev = "persist" /\ events[j].ev = "geometry"
            /\ events[i].level < events[j].level
            /\ \E k \in DOMAIN events : k > j /\ events[k] = PersistEvent(events[j].level)

\* C25: when a geometry batch of a level fails after its retries, the level
\* is aborted, and nothing of the level is persisted to osm_relations in this
\* run.
C25_FailedLevelNotPersisted ==
    \A i \in DOMAIN events :
        (events[i].ev = "geometry" /\ events[i].failed) =>
            /\ i = Len(events)
            /\ events[i].level \notin PersistedLevels
            /\ cpc \in {"error", "interrupted"}

\* One of the two geometry batches of a level has failed, after a lower level
\* was persisted.
C25_Witness ==
    /\ cpc = "error"
    /\ runError \in FetchErrors
    /\ events # <<>>
    /\ Last(events).ev = "geometry" /\ Last(events).failed
    /\ PersistedLevels # {}

-----------------------------------------------------------------------------
(* Properties of the geometry of a relation *)

\* The rings of the emitted text.
EmittedRings ==
    UNION {{ewkt.polygons[p][r] : r \in DOMAIN ewkt.polygons[p]} :
                p \in DOMAIN ewkt.polygons}

\* C26: every ring of the emitted geometry text is closed, its first point
\* equal to its last within 1e-7, also for a relation of a single way
\* fragment and for a ring reduced by sampling.
C26_RingsClosed ==
    gpc = "converted" =>
        \A ring \in EmittedRings : pointsEqual(ring[1], Last(ring))

\* A relation of one way that is not closed and has more than
\* MAX_POINTS_PER_RING points: its ring is emitted, sampled.
C26_Witness ==
    /\ gpc = "converted"
    /\ Len(members) = 1
    /\ Len(members[1].way) > MAX_POINTS_PER_RING
    /\ members[1].way[1] # Last(members[1].way)
    /\ \E ring \in EmittedRings : Len(ring) < Len(members[1].way)

\* The ring of the three fragments, and what it is to be that ring up to
\* rotation and direction.
ExpectedRing == << <<0, 0>>, <<1, 0>>, <<2, 0>>, <<2, 1>>, <<0, 1>>, <<0, 0>> >>
Rotated(ring, k) ==
    LET n == Len(ring) - 1
    IN [i \in 1..(n + 1) |-> ring[((i - 1 + k) % n) + 1]]
SameRing(a, b) ==
    /\ Len(a) = Len(b)
    /\ a[1] = Last(a)
    /\ \E k \in 0..(Len(b) - 2) : a = Rotated(b, k) \/ a = Rotated(Reversed(b), k)

\* The relation is made of the three fragments, each in one of its two
\* directions, in some order.
FragmentRelation ==
    /\ Len(members) = 3
    /\ \A f \in Fragments :
            \E i \in 1..3 : members[i].way \in {f, Reversed(f)}

\* C27: fragments that share endpoints are joined whatever their direction:
\* the outer fragments A, B and C merge into exactly one closed ring, the
\* expected one up to rotation and direction, emitted as a single polygon.
C27_FragmentsMerge ==
    (FragmentRelation /\ gpc # "input") =>
        /\ Len(outerRings) = 1
        /\ SameRing(outerRings[1], ExpectedRing)
        /\ gpc # "skipped"
        /\ gpc \in {"parsed", "converted"} =>
                geojson.type = "Polygon" /\ Len(geojson.coordinates) = 1
        /\ gpc = "converted" =>
                /\ ewkt.kind = "POLYGON"
                /\ Len(ewkt.polygons) = 1 /\ Len(ewkt.polygons[1]) = 1
                /\ ewkt.polygons[1][1][1] = Last(ewkt.polygons[1][1])

\* The relation of A, B and C, as the claim writes them, has been emitted.
C27_Witness ==
    /\ gpc = "converted"
    /\ members = <<Member(FragmentA, "outer"), Member(FragmentB, "outer"),
                   Member(FragmentC, "outer")>>
    /\ outerRings = <<ExpectedRing>>

\* The point is inside the ring, by the even-odd rule: a ray to the right of
\* the point crosses an odd number of edges.
Crosses(point, pi, pj) ==
    /\ (pi[2] > point[2]) # (pj[2] > point[2])
    /\ IF pj[2] - pi[2] > 0
       THEN (point[1] - pi[1]) * (pj[2] - pi[2]) < (pj[1] - pi[1]) * (point[2] - pi[2])
       ELSE (point[1] - pi[1]) * (pj[2] - pi[2]) > (pj[1] - pi[1]) * (point[2] - pi[2])
PointInside(point, ring) ==
    Cardinality({i \in 1..Len(ring) :
        Crosses(point, ring[i], ring[IF i = 1 THEN Len(ring) ELSE i - 1])}) % 2 = 1
RingInside(inner, outer) ==
    \A k \in 1..Len(inner) : PointInside(inner[k], outer)

\* C28: a relation with exactly one outer ring and an inner ring that lies
\* inside it yields a single Polygon, the outer ring and that one hole; a
\* MultiPolygon is emitted only when there is more than one outer ring.
C28_PolygonWithHole ==
    gpc \in {"parsed", "converted"} =>
        /\ geojson.type = "MultiPolygon" => Len(outerRings) > 1
        /\ (/\ Len(outerRings) = 1 /\ Len(innerRings) = 1
            /\ RingInside(innerRings[1], outerRings[1])) =>
                /\ geojson.type = "Polygon"
                /\ Len(geojson.coordinates) = 2
                /\ geojson.coordinates[2] = innerRings[1]

\* The part of C28 that the code keeps: a MultiPolygon is returned exactly
\* when the outer ways merge into more than one ring.
MultiPolygonOfSeveralOuters ==
    gpc \in {"parsed", "converted"} =>
        (geojson.type = "MultiPolygon" <=> Len(outerRings) > 1)

\* The holes of the polygon p of a MultiPolygon.
HolesOf(p) ==
    {geojson.coordinates[p][r] : r \in 2..Len(geojson.coordinates[p])}

\* C29: when more than one outer ring contains the test point of an inner
\* ring, the hole is attached to the first of them only: no inner ring is a
\* hole of two polygons.
C29_HoleOfFirstOuterOnly ==
    (gpc \in {"parsed", "converted"} /\ geojson.type = "MultiPolygon") =>
        \A p, q \in DOMAIN geojson.coordinates :
            p < q => HolesOf(p) \cap HolesOf(q) = {}

\* C30: every emitted ring has at most MAX_POINTS_PER_RING points, the
\* points that close the ring and the preserved last point included.
C30_AtMost500Points ==
    gpc = "converted" =>
        \A ring \in EmittedRings : Len(ring) <= MAX_POINTS_PER_RING

-----------------------------------------------------------------------------
(* Properties of the relations of a geometry batch *)

\* The relations that are in a set of rows.
RelationsIn(rows) == {row.relationId : row \in rows}

\* C31: a relation that has no name tag or no admin_level tag is discarded
\* from its geometry batch and is never persisted to osm_relations.
C31_UntaggedDiscarded ==
    \A n \in DOMAIN elements :
        ~(elements[n].tags.name /\ elements[n].tags.admin_level) =>
            /\ \A k \in DOMAIN results : results[k].relationId # n
            /\ n \notin RelationsIn(rawTable)
            /\ n \notin RelationsIn(rawTxn.rows)

\* A batch of a relation without admin_level and a relation with both tags,
\* each with a closed outer way: the second one alone is stored.
C31_Witness ==
    /\ rawPc = "transform"
    /\ Len(elements) = 2
    /\ elements[1].tags = [name |-> TRUE, admin_level |-> FALSE]
    /\ elements[1].members = <<Member(Rect(0, 0, 8, 8), "outer")>>
    /\ RelationsIn(rawTable) = {2}

\* C32: a row of osm_relations persisted with the placeholder polygon is
\* rejected by the validity check of the transform and never reaches
\* admin_boundaries.
C32_PlaceholderRejected ==
    \A row \in rawTable :
        row.geometry = MinimalPolygon =>
            row \notin transformed /\ row \notin enrichedTable

\* The member ways of the relation span no area: there are no three points
\* of its outer ways that are not on one line.
NoArea(el) ==
    LET ways == WaysOfRole(el.members, "outer")
        points == UNION {SeqToSet(ways[w]) : w \in DOMAIN ways}
    IN \A a, b, c \in points :
            (b[1] - a[1]) * (c[2] - a[2]) - (b[2] - a[2]) * (c[1] - a[1]) = 0

\* C35: a relation that has a name and an admin_level but of which the
\* geometry is entirely invalid or empty is still recorded in osm_relations,
\* with the placeholder polygon as its geometry.
C35_PlaceholderRecorded ==
    rawPc \in {"skipped", "transform", "insert", "done"} =>
        \A n \in DOMAIN elements :
            (HasNameAndLevel(elements[n].tags) /\ NoArea(elements[n])) =>
                \E row \in rawTable :
                    /\ row.relationId = n
                    /\ row.geometry \in {MinimalPolygon, MakeValid(MinimalPolygon)}

\* The part of C35 that the code keeps: the relation of which the outer ways
\* give a ring of less than 4 points is recorded with the placeholder.
DegenerateRingRecorded ==
    rawPc \in {"transform", "insert", "done"} =>
        \A n \in DOMAIN elements :
            (HasNameAndLevel(elements[n].tags)
                /\ elements[n].members = <<Member(FragmentA, "outer")>>) =>
                \E row \in rawTable :
                    /\ row.relationId = n
                    /\ row.geometry \in {MinimalPolygon, MakeValid(MinimalPolygon)}

\* C40: the persistence of a level to osm_relations is all or nothing: when
\* an INSERT of the level fails, the transaction is rolled back and no row of
\* the level is committed.
C40_RawAllOrNothing ==
    rawPc = "failed" =>
        /\ rawTxn.state = "rolled_back"
        /\ rawTable = {}

\* The part of C40 that the code keeps: nothing of a transaction that failed
\* is committed.
FailedLevelNotCommitted ==
    rawPc = "failed" => rawTable = {}


-----------------------------------------------------------------------------
(* Viability of a country *)

\* The levels of the configured range in which discovery found a relation.
NonEmptyLevelsInRange ==
    {l \in adminLevelRange.min..adminLevelRange.max : relationMap[l] # {}}

\* C33: once discovery has returned, the country is marked failed with
\* "No relations found" exactly when no level of the configured range
\* yielded a relation; with a non-empty level in the range it is not failed
\* for that reason.
C33_FailedIffNoLevelInRange ==
    cpc \in {"levels", "complete", "done"} =>
        ((progress.status = "failed" /\ progress.last_error = "No relations found")
            <=> NonEmptyLevelsInRange = {})

\* With the range starting at the level of the country-root query, the
\* country is failed for that reason exactly when the map is empty.
FailedIffNoLevelFromRoot ==
    (cpc \in {"levels", "complete", "done"} /\ adminLevelRange.min = RootLevel) =>
        ((progress.status = "failed" /\ progress.last_error = "No relations found")
            <=> NonEmptyLevelsInRange = {})


-----------------------------------------------------------------------------
(* Properties of the statistics of the batch persister *)

\* The batches of the call that failed at transaction level.
FailedBatches == {k \in 1..Len(persistLog) : ~persistLog[k].success}

\* The rows the committed transactions of the call have written.
CommittedRows == UNION {persistLog[k].persisted : k \in 1..Len(persistLog)}

\* C36: if a batch failed at transaction level and was rolled back, the
\* statistics the persister returns hold at least one error entry.
C36_FailedBatchInErrors ==
    (ppc = "done" /\ FailedBatches # {}) => stats.errors # {}

\* C37: the inserted count the persister returns is the number of rows
\* written by transactions that committed.
C37_InsertedCountIsCommitted ==
    ppc = "done" => stats.insertedRecords = Cardinality(CommittedRows)

\* The rows of a failed batch are never in the count.
FailedBatchNotCounted ==
    ppc = "done" =>
        stats.insertedRecords <=
            Cardinality(UNION {RowsOf(persistLog[k].rows) :
                                    k \in 1..Len(persistLog) \ FailedBatches})


-----------------------------------------------------------------------------
(* Properties of the pipeline after a failed step 1 *)

\* The tracker row says failed.
TrackerFailed == progress.status = "failed"

\* The stages after step 1 have begun, or are over: the Wikidata fetch has
\* returned, and the transform, the insert or the verification is next.
LaterStageRan == mainPc \in {"step4", "step5", "step6"}

\* C38: once step 1 has set the tracker of the country to failed, no later
\* stage of the run (Wikidata fetch, transform, enriched insert) is executed
\* for it, and the status is not changed to completed.
C38_FailedCountryStops ==
    /\ [](TrackerFailed => ~LaterStageRan)
    /\ [][TrackerFailed => progress'.status # "completed"]_vars

\* The status of a failed country stays failed to the end of the run.
FailedStaysFailed ==
    [][TrackerFailed => progress'.status = "failed"]_vars


-----------------------------------------------------------------------------
(* Properties of the merge of the ways *)

\* How often the segment s (two neighbouring points, in either direction)
\* occurs in the paths.
SegmentCount(paths, s) ==
    Cardinality({ki \in UNION {{<<k, i>> : i \in 1..(Len(paths[k]) - 1)} : k \in DOMAIN paths} :
                    {paths[ki[1]][ki[2]], paths[ki[1]][ki[2] + 1]} = s})

\* The segments of the paths.
Segments(paths) ==
    UNION {{{paths[k][i], paths[k][i + 1]} : i \in 1..(Len(paths[k]) - 1)} : k \in DOMAIN paths}

\* The rings that end with the segment s: the segment the closing point of a
\* ring adds is not the segment of a way.
ClosedBy(rings, s) ==
    Cardinality({k \in DOMAIN rings :
                    /\ Len(rings[k]) >= 2
                    /\ {rings[k][Len(rings[k]) - 1], rings[k][Len(rings[k])]} = s})

\* The rings are the ways themselves; or there is no ring without a way of
\* its own, and no segment more often in the rings than the ways have it.
EachWayAtMostOnce(ways, rings) ==
    \/ rings = ways
    \/ /\ Len(rings) <= Len(ways)
       /\ \A s \in Segments(rings) :
                SegmentCount(rings, s) <= SegmentCount(ways, s) + ClosedBy(rings, s)

\* C39: the merge of the ways ends on every list of ways, and it uses each
\* way at most once: the points of a way are not taken into two rings, or
\* twice into one ring.
C39_EachWayAtMostOnce ==
    gpc \in {"merged", "parsed", "skipped", "converted"} =>
        /\ EachWayAtMostOnce(WaysOfRole(members, "outer"), outerRings)
        /\ EachWayAtMostOnce(WaysOfRole(members, "inner"), innerRings)

\* Three outer ways were merged into two rings: one of two ways that join,
\* and one of a way that is closed.
C39_Witness ==
    /\ gpc = "merged"
    /\ Len(WaysOfRole(members, "outer")) = 3
    /\ Len(outerRings) = 2
    /\ \E k \in DOMAIN outerRings : outerRings[k] = <<<<0, 0>>, <<1, 0>>, <<2, 0>>, <<0, 0>>>>


-----------------------------------------------------------------------------
(* Properties of the interrupted run *)

\* No batch has a part of its rows among the rows other sessions see.
NoPartialBatch ==
    \A k \in 1..MaxTxns :
        BatchRows(k) \cap tableRows = {} \/ BatchRows(k) \subseteq tableRows

InterruptedBetweenAttempts ==
    /\ ~alive
    /\ ipc = "fetching"
    /\ rpc = "loop"
    /\ attempt = 1

=============================================================================
